---- MODULE Spec2Model ----
(***************************************************************************)
(* Model of berrypay's PaymentProcessor (processor.ts) together with the   *)
(* parts of BerryPayWallet (wallet.ts) it drives.  One JavaScript event    *)
(* loop runs the processor: a step of the model is one synchronous run of  *)
(* code between two awaits.  The ledger node, the websocket monitor and    *)
(* the webhook endpoint are the environment.                               *)
(***************************************************************************)
EXTENDS Integers, Sequences, FiniteSets, TLC

\* ---------------------------------------------------------------- bounds
MaxCharges  == 1      \* createCharge calls per run
MaxPayments == 2      \* blocks customers send to charge addresses per run
MaxAmount   == 2      \* largest amount (raw) of one block / one charge
MaxTasks    == 2      \* sweepCharge calls in flight at the same time
MaxTime     == 2      \* clock values 1..MaxTime
MaxStore    == 3      \* createCharge calls per run of the store-only system
MaxStarts   == 2      \* start() calls in flight at the same time
MaxRecover  == 2      \* charges in the snapshot a restarted process loads
MaxShared   == 2      \* charge create commands run against one snapshot file

\* ------------------------------------------------------- program constants
StartingIndex == 1000              \* config.startingIndex ?? 1000

\* ------------------------------------------------------------ input sets
Amounts     == 1..MaxAmount        \* amount of a block sent by a customer
ReqAmounts  == {MaxAmount}         \* options.amountNano of createCharge
Timeouts    == {0}                 \* options.timeoutMs of createCharge
WebhookUrls == {TRUE, FALSE}       \* options.webhookUrl present or not
Senders     == {"payer"}           \* source account of a block
NoVal       == 0                   \* an absent optional field (undefined)
NaN         == -1                  \* NaN, and the time value of an Invalid Date
Epoch       == 0                   \* the time value of new Date(null)
NoHash      == <<>>                \* an absent block hash
NotListening == -1                 \* the processor is not run by the listen command
NoFile      == [exists |-> FALSE, nextAccountIndex |-> NoVal, charges |-> <<>>]
Quiet       == <<"-", NoVal, <<>>>> \* value of last when nothing returned

VARIABLES
  charges,             \* Map<string, Charge>, keyed by charge id
  addressToChargeId,   \* Map<string, string>
  nextAccountIndex,
  autoSweep,
  isRunning,
  expiryCheckInterval, \* TRUE when the 10 s interval is armed
  saveDebounceTimer,   \* number of armed 500 ms save timeouts
  persisted,           \* content of the snapshot file (NoFile: no file)
  monitorAccounts,     \* addresses the BlockLatticeMonitor watches
  monitorStarted,      \* monitor.start() has been called (and not stop())
  ledgerPending,       \* ledger: account index -> receivable block hashes
  ledgerBalance,       \* ledger: account index -> settled balance
  payments,            \* ledger: blocks sent by customers, hash = position
  sendCount,           \* ledger: account index -> send blocks processed
  events,              \* payment events emitted by the monitor, not yet handled
  tasks,               \* sweepCharge calls suspended at an await
  rec,                 \* start() calls suspended at an await, by slot
  webhookPosts,        \* charge id -> payloads of the POST requests issued
  now,                 \* the clock
  nextId,              \* ids handed out by generateChargeId so far, plus one
  creator,             \* the PaymentProcessor of a `charge create` process
  autoStopTimers,      \* armed checkAutoStop timeouts of the listen command
  last                 \* what the call that ended in the last step returned

vars == <<charges, addressToChargeId, nextAccountIndex, autoSweep, isRunning,
          expiryCheckInterval, saveDebounceTimer, persisted, monitorAccounts,
          monitorStarted, ledgerPending, ledgerBalance, payments, sendCount,
          events, tasks, rec, webhookPosts, now, nextId, creator,
          autoStopTimers, last>>

procVars   == <<isRunning, expiryCheckInterval, monitorStarted>>
ledgerVars == <<ledgerPending, ledgerBalance, payments, sendCount>>
storeVars  == <<charges, addressToChargeId, nextAccountIndex>>
fileVars   == <<saveDebounceTimer, persisted>>

\* ------------------------------------------------------------- helpers
\* wallet.deriveAccount: a deterministic, injective derivation from the index
deriveAccount(index) == <<"nano", index>>

AccountIndices == StartingIndex..(StartingIndex + MaxCharges + MaxStore)

RECURSIVE SumTx(_)
SumTx(txs) ==
  IF txs = <<>> THEN 0 ELSE txs[1].amountRaw + SumTx(Tail(txs))

RECURSIVE SetToSeq(_)
SetToSeq(S) ==
  IF S = {} THEN <<>>
  ELSE LET m == CHOOSE x \in S : \A y \in S : x <= y
       IN <<m>> \o SetToSeq(S \ {m})

getChargeByAddress(address) ==
  IF address \in DOMAIN addressToChargeId
     /\ addressToChargeId[address] \in DOMAIN charges
  THEN addressToChargeId[address] ELSE NoVal

listActiveCharges ==
  SetToSeq({id \in DOMAIN charges :
              charges[id].status \in {"pending", "partial"}})

MapDelete(m, k) == [x \in DOMAIN m \ {k} |-> m[x]]
MapSet(m, k, v) == [x \in DOMAIN m \cup {k} |-> IF x = k THEN v ELSE m[x]]

\* ------------------------------------------------------------ persistence
\* Date.prototype.toJSON: an ISO string, or null for an Invalid Date
DateToJSON(d) == IF d = NaN THEN <<"null">> ELSE <<"iso", d>>

\* JSON.stringify leaves out a key whose value is undefined
OptDateToJSON(d) == IF d = NoVal THEN <<>> ELSE DateToJSON(d)

\* JSON.stringify of one charge
ToJSON(charge) ==
  [charge EXCEPT !.createdAt   = DateToJSON(@),
                 !.expiresAt   = DateToJSON(@),
                 !.completedAt = OptDateToJSON(@),
                 !.sweptAt     = OptDateToJSON(@)]

\* new Date(x) for a parsed JSON value
NewDate(j) == IF j = <<"null">> THEN Epoch ELSE j[2]

\* mutant: optional dates are not converted back
NewOptDateDropped(j) == NoVal

\* x ? new Date(x) : undefined
NewOptDate(j) == IF j = <<>> \/ j = <<"null">> THEN NoVal ELSE NewDate(j)

\* lines 64-74: one parsed charge with its dates converted back
FromJSON(c) ==
  [c EXCEPT !.createdAt   = NewDate(@),
            !.expiresAt   = NewDate(@),
            !.completedAt = NewOptDate(@),
            !.sweptAt     = NewOptDate(@)]

PersistedState(ch, nai) ==
  [exists |-> TRUE, nextAccountIndex |-> nai,
   charges |-> [id \in DOMAIN ch |-> ToJSON(ch[id])]]

\* null when there is no file
loadPersistedState(file) ==
  [file EXCEPT !.charges = [id \in DOMAIN @ |-> FromJSON(@[id])]]

\* lines 145-147 and 162-165: clearTimeout of the armed timer, if any
ClearSaveTimer(armed) == IF armed > 0 THEN armed - 1 ELSE armed

\* mutant: the armed timer is not cleared before the next one is set
ArmSaveTimerNoClear(armed) == armed + 1

\* lines 145-148: clearTimeout, then setTimeout
ArmSaveTimer(armed) == ClearSaveTimer(armed) + 1

\* persistState(): (re)arm the debounce timer
persistState ==
  /\ saveDebounceTimer' = ArmSaveTimer(saveDebounceTimer)
  /\ UNCHANGED persisted

\* mutant: the critical write is left to the debounce timer
persistStateNowDebounced(ch, nai) ==
  /\ saveDebounceTimer' = ArmSaveTimer(saveDebounceTimer)
  /\ UNCHANGED persisted

\* persistStateNow(): cancel the timer and write the file
persistStateNow(ch, nai) ==
  /\ saveDebounceTimer' = ClearSaveTimer(saveDebounceTimer)
  /\ persisted' = PersistedState(ch, nai)

\* a debounce timeout fires: lines 149-156
SaveTimerFire ==
  /\ saveDebounceTimer > 0
  /\ persisted' = PersistedState(charges, nextAccountIndex)
  /\ saveDebounceTimer' = saveDebounceTimer - 1
  /\ last' = Quiet
  /\ UNCHANGED <<storeVars, autoSweep, creator, autoStopTimers, procVars, monitorAccounts, ledgerVars,
                 events, tasks, rec, webhookPosts, now, nextId>>

\* ------------------------------------------------------------ sweep tasks
NoTask == [pc |-> "free", id |-> NoVal, pend |-> <<>>, balance |-> 0,
           hash |-> NoHash]

\* no `charge create` process is alive
NoCreator == [pc |-> "none", charges |-> <<>>, nextAccountIndex |-> NoVal,
              listenerRunning |-> FALSE]

NoRec == [pc |-> "idle", queue |-> <<>>, pend |-> <<>>, task |-> NoVal]

FreeSlots(ts) == {s \in DOMAIN ts : ts[s].pc = "free"}

FirstFree(ts) == CHOOSE s \in FreeSlots(ts) : \A r \in FreeSlots(ts) : s <= r

\* mutant: the "already swept" test is missing
SweepEntryNoSweptTest(ch, id) ==
  IF id \notin DOMAIN ch THEN "notfound" ELSE "await"

\* the synchronous head of sweepCharge, up to the first await: what it
\* returns at once, or "await" when it suspends in wallet.receivePending
SweepEntry(ch, id) ==
  IF id \notin DOMAIN ch THEN "notfound"
  ELSE IF ch[id].status = "swept" THEN "null"
  ELSE "await"

Spawn(ts, id) ==
  [ts EXCEPT ![FirstFree(ts)] = [NoTask EXCEPT !.pc = "getPending", !.id = id]]


\* when a sweep call returns or throws, a checkMissedPayments that awaits it
\* goes on with its next charge (or leaves its loop)
RecNext(r) ==
  IF Len(r.queue) > 1
  THEN [r EXCEPT !.pc = "getPending", !.queue = Tail(r.queue),
                 !.pend = <<>>, !.task = NoVal]
  ELSE [r EXCEPT !.pc = "monitorStarting", !.queue = <<>>,
                 !.pend = <<>>, !.task = NoVal]

RecAfterTask(s) ==
  [r \in DOMAIN rec |->
     IF rec[r].pc = "awaitSweep" /\ rec[r].task = s THEN RecNext(rec[r])
     ELSE rec[r]]

\* a start() call leaves checkMissedPayments and calls monitor.start()
StartsMonitor(old, new) ==
  \E r \in DOMAIN old :
    old[r].pc # "monitorStarting" /\ new[r].pc = "monitorStarting"

IdleRecs == {r \in DOMAIN rec : rec[r].pc = "idle"}

\* ------------------------------------------------------------ createCharge
NewCharge(accountIndex, amountRaw, timeoutMs, webhookUrl) ==
  [address      |-> deriveAccount(accountIndex),
   accountIndex |-> accountIndex,
   amountRaw    |-> amountRaw,
   receivedRaw  |-> 0,
   status       |-> "pending",
   transactions |-> <<>>,
   createdAt    |-> now,
   expiresAt    |-> IF timeoutMs = NaN THEN NaN ELSE now + timeoutMs,
   completedAt  |-> NoVal,
   sweptAt      |-> NoVal,
   sweepTxHash  |-> NoHash,
   webhookUrl   |-> webhookUrl,
   webhookSent  |-> FALSE]

\* mutant: the index is read but not advanced
IncrementIndexStuck(index) == index

\* line 290: this.nextAccountIndex++
IncrementIndex(index) == index + 1

CreateChargeUpTo(max, amountRaw, timeoutMs, webhookUrl) ==
  /\ nextId <= max
  /\ LET id           == nextId
         accountIndex == nextAccountIndex
         charge       == NewCharge(accountIndex, amountRaw, timeoutMs, webhookUrl)
     IN /\ nextAccountIndex' = IncrementIndex(nextAccountIndex)
        /\ charges' = MapSet(charges, id, charge)
        /\ addressToChargeId' = MapSet(addressToChargeId, charge.address, id)
        /\ monitorAccounts' = monitorAccounts \cup {charge.address}
        /\ webhookPosts' = MapSet(webhookPosts, id, <<>>)
        /\ last' = Quiet
  /\ nextId' = nextId + 1
  /\ persistState
  /\ UNCHANGED <<autoSweep, creator, autoStopTimers, procVars, ledgerVars, events, tasks, rec, now>>

CreateCharge(amountRaw, timeoutMs, webhookUrl) ==
  CreateChargeUpTo(MaxCharges, amountRaw, timeoutMs, webhookUrl)

\* --------------------------------------------------- environment: customer
\* a customer's send block to a charge address is confirmed by the ledger;
\* a started monitor that watches the address emits a payment event
PayTo(index, amount, from) ==
  /\ Len(payments) < MaxPayments
  /\ LET hash == Len(payments) + 1
     IN /\ payments' = Append(payments,
                          [to |-> index, amount |-> amount, from |-> from])
        /\ ledgerPending' = [ledgerPending EXCEPT ![index] = @ \cup {hash}]
        /\ events' = IF monitorStarted /\ deriveAccount(index) \in monitorAccounts
                     THEN events \cup {hash} ELSE events
        /\ last' = Quiet
  /\ UNCHANGED <<storeVars, autoSweep, creator, autoStopTimers, procVars, fileVars, monitorAccounts,
                 ledgerBalance, sendCount, tasks, rec, webhookPosts, now, nextId>>

\* a customer pays the address of a charge of the processor
Pay(index, amount, from) ==
  /\ index \in StartingIndex..(nextAccountIndex - 1)
  /\ PayTo(index, amount, from)

\* the monitor emits the payment event of a confirmed block once more (the
\* node repeats a confirmation, or the websocket was reconnected)
Redeliver(hash) ==
  /\ hash \in 1..Len(payments)
  /\ hash \notin events
  /\ monitorStarted
  /\ deriveAccount(payments[hash].to) \in monitorAccounts
  /\ events' = events \cup {hash}
  /\ last' = Quiet
  /\ UNCHANGED <<storeVars, autoSweep, creator, autoStopTimers, procVars, fileVars, monitorAccounts,
                 ledgerVars, tasks, rec, webhookPosts, now, nextId>>

\* ----------------------------------------------------------- handlePayment
PaymentTransaction(hash, from, amountRaw) ==
  [hash |-> hash, from |-> from, amountRaw |-> amountRaw]

\* mutant: a hash that is already in the transaction list is not applied
ApplyPaymentOnce(charge, tx) ==
  IF \E i \in 1..Len(charge.transactions) : charge.transactions[i].hash = tx.hash
  THEN charge
  ELSE [charge EXCEPT !.transactions = Append(@, tx),
                      !.receivedRaw  = @ + tx.amountRaw]

\* mutant: the transaction is recorded but receivedRaw is not updated
ApplyPaymentNoAdd(charge, tx) ==
  [charge EXCEPT !.transactions = Append(@, tx)]

\* lines 356-371: record the transaction and add it to receivedRaw
ApplyPayment(charge, tx) ==
  [charge EXCEPT !.transactions = Append(@, tx),
                 !.receivedRaw  = @ + tx.amountRaw]

\* mutant: a payment of exactly the required amount leaves the charge partial
PaidStatusStrict(charge) ==
  IF charge.receivedRaw > charge.amountRaw
  THEN [charge EXCEPT !.status = "completed", !.completedAt = now]
  ELSE [charge EXCEPT !.status = "partial"]

\* lines 375-391: status after a live payment
PaidStatus(charge) ==
  IF charge.receivedRaw >= charge.amountRaw
  THEN [charge EXCEPT !.status = "completed", !.completedAt = now]
  ELSE [charge EXCEPT !.status = "partial"]

\* mutant: expired charges still take payments
IgnoresPaymentUnlessExpired(charge) == charge.status \in {"completed", "swept"}

\* statuses in which handlePayment returns without doing anything
IgnoresPayment(charge) == charge.status \in {"completed", "expired", "swept"}

HandlePayment(hash) ==
  /\ hash \in events
  /\ events' = events \ {hash}
  /\ LET payment == payments[hash]
         id      == getChargeByAddress(deriveAccount(payment.to))
     IN IF id = NoVal \/ (id # NoVal /\ IgnoresPayment(charges[id]))
        THEN /\ last' = <<"handlePayment", hash, <<"ignored">>>>
             /\ UNCHANGED <<charges, fileVars, tasks>>
        ELSE LET tx == PaymentTransaction(hash, payment.from, payment.amount)
                 c1 == PaidStatus(ApplyPayment(charges[id], tx))
                 ch == [charges EXCEPT ![id] = c1]
             IN /\ charges' = ch
                /\ last' = <<"handlePayment", hash, <<c1.status>>>>
                /\ IF c1.status = "completed"
                   THEN /\ persistStateNow(ch, nextAccountIndex)
                        /\ IF autoSweep
                           THEN /\ FreeSlots(tasks) # {}
                                /\ tasks' = Spawn(tasks, id)
                           ELSE UNCHANGED tasks
                   ELSE /\ persistState
                        /\ UNCHANGED tasks
  /\ UNCHANGED <<addressToChargeId, nextAccountIndex, autoSweep, creator, autoStopTimers, procVars,
                 monitorAccounts, ledgerVars, rec, webhookPosts, now, nextId>>

\* ------------------------------------------------------------- sweepCharge
\* a call of the public method sweepCharge(chargeId)
SweepCharge(id) ==
  /\ LET r == SweepEntry(charges, id)
     IN /\ last' = IF r = "await" THEN Quiet ELSE <<"sweepCharge", id, <<r>>>>
        /\ IF r = "await"
           THEN /\ FreeSlots(tasks) # {}
                /\ tasks' = Spawn(tasks, id)
           ELSE UNCHANGED tasks
  /\ UNCHANGED <<storeVars, autoSweep, creator, autoStopTimers, procVars, fileVars, monitorAccounts,
                 ledgerVars, events, rec, webhookPosts, now, nextId>>

\* a sweep call ends (returns or throws): its slot is free again, and a
\* checkMissedPayments that awaited it resumes
EndTask(s) ==
  /\ tasks' = [tasks EXCEPT ![s] = NoTask]
  /\ rec' = RecAfterTask(s)
  /\ monitorStarted' = (monitorStarted \/ StartsMonitor(rec, rec'))

\* wallet.receivePending, first half: getPendingBlocks answers; it catches
\* a failed query and answers []
SweepGetPendingWith(s, rpcOk) ==
  /\ tasks[s].pc = "getPending"
  /\ LET index == charges[tasks[s].id].accountIndex
         pend  == IF rpcOk THEN SetToSeq(ledgerPending[index]) ELSE <<>>
     IN tasks' = [tasks EXCEPT ![s].pend = pend,
                               ![s].pc = IF pend = <<>> THEN "getBalance"
                                         ELSE "receive"]
  /\ last' = Quiet
  /\ UNCHANGED <<storeVars, autoSweep, creator, autoStopTimers, procVars, fileVars, monitorAccounts,
                 ledgerVars, events, rec, webhookPosts, now, nextId>>

SweepGetPending(s) == SweepGetPendingWith(s, TRUE)

\* the node cannot be reached for the query of the receivable blocks
SweepGetPendingFails(s) == SweepGetPendingWith(s, FALSE)

\* wallet.receivePending, the loop: wallet.receive of one block answers.
\* A block that is no longer receivable makes receive throw, and
\* sweepCharge rethrows after emitting "error".
SweepReceiveWith(s, rpcOk) ==
  /\ tasks[s].pc = "receive"
  /\ LET id    == tasks[s].id
         index == charges[id].accountIndex
         hash  == Head(tasks[s].pend)
         rest  == Tail(tasks[s].pend)
     IN IF rpcOk /\ hash \in ledgerPending[index]
        THEN /\ ledgerPending' = [ledgerPending EXCEPT ![index] = @ \ {hash}]
             /\ ledgerBalance' = [ledgerBalance EXCEPT
                                    ![index] = @ + payments[hash].amount]
             /\ tasks' = [tasks EXCEPT ![s].pend = rest,
                                       ![s].pc = IF rest = <<>> THEN "getBalance"
                                                 ELSE "receive"]
             /\ last' = Quiet
             /\ UNCHANGED <<rec, monitorStarted>>
        ELSE /\ EndTask(s)
             /\ last' = <<"sweepCharge", id, <<"error">>>>
             /\ UNCHANGED <<ledgerPending, ledgerBalance>>
  /\ UNCHANGED <<storeVars, autoSweep, creator, autoStopTimers, isRunning, expiryCheckInterval, fileVars,
                 monitorAccounts, payments, sendCount, events, webhookPosts,
                 now, nextId>>

SweepReceive(s) == SweepReceiveWith(s, TRUE)

\* the node refuses the receive block, or cannot be reached
SweepReceiveFails(s) == SweepReceiveWith(s, FALSE)

\* mutant: the zero-balance test is missing
NothingToSweepNever(balance) == FALSE

\* mutant: the zero-balance test is wrong by one
NothingToSweepNegative(balance) == balance < 0

\* line 465
NothingToSweep(balance) == balance = 0

\* wallet.getBalance answers; it catches a failed query and answers a
\* balance of "0"; a zero balance returns null
SweepGetBalanceWith(s, rpcOk) ==
  /\ tasks[s].pc = "getBalance"
  /\ LET id      == tasks[s].id
         balance == IF rpcOk THEN ledgerBalance[charges[id].accountIndex] ELSE 0
     IN IF NothingToSweep(balance)
        THEN /\ EndTask(s)
             /\ last' = <<"sweepCharge", id, <<"null">>>>
        ELSE /\ tasks' = [tasks EXCEPT ![s].balance = balance, ![s].pc = "send"]
             /\ last' = Quiet
             /\ UNCHANGED <<rec, monitorStarted>>
  /\ UNCHANGED <<storeVars, autoSweep, creator, autoStopTimers, isRunning, expiryCheckInterval, fileVars,
                 monitorAccounts, ledgerVars, events, webhookPosts, now, nextId>>

SweepGetBalance(s) == SweepGetBalanceWith(s, TRUE)

\* the node cannot be reached for the balance query
SweepGetBalanceFails(s) == SweepGetBalanceWith(s, FALSE)

\* part_000 lines 625-637: the listen command answers every charge:swept and
\* charge:expired event with setTimeout(checkAutoStop, 1000)
ArmAutoStop(timers, n) == IF timers = NotListening THEN timers ELSE timers + n

\* lines 474-476
SweptCharge(charge, hash) ==
  [charge EXCEPT !.status = "swept", !.sweptAt = now, !.sweepTxHash = hash]

\* mutant: the required amount is swept instead of the balance
SendAmountRequired(task, charge) == charge.amountRaw

\* line 472: the amount handed to wallet.send
SendAmount(task, charge) == task.balance

\* mutant: the payload reports the amount the charge asked for
WebhookPayloadRequired(charge, sweepHash, amountRaw) ==
  [address        |-> charge.address,
   amountRaw      |-> charge.amountRaw,
   receivedRaw    |-> charge.receivedRaw,
   status         |-> charge.status,
   sweepTxHash    |-> sweepHash,
   sweptAmountRaw |-> charge.amountRaw,
   completedAt    |-> OptDateToJSON(charge.completedAt),
   sweptAt        |-> OptDateToJSON(charge.sweptAt)]

\* lines 397-415: the body of the POST, built from the charge as it is when
\* callWebhook is entered
WebhookPayload(charge, sweepHash, amountRaw) ==
  [address        |-> charge.address,
   amountRaw      |-> charge.amountRaw,
   receivedRaw    |-> charge.receivedRaw,
   status         |-> charge.status,
   sweepTxHash    |-> sweepHash,
   sweptAmountRaw |-> amountRaw,
   completedAt    |-> OptDateToJSON(charge.completedAt),
   sweptAt        |-> OptDateToJSON(charge.sweptAt)]

\* line 493
WantsWebhook(charge) == charge.webhookUrl /\ ~charge.webhookSent

\* wallet.send answers, and lines 474-497 run up to the await of fetch
SweepSendWith(s, rpcOk) ==
  /\ tasks[s].pc = "send"
  /\ LET id     == tasks[s].id
         charge == charges[id]
         index  == charge.accountIndex
         amount == SendAmount(tasks[s], charge)
     IN IF ~rpcOk \/ amount > ledgerBalance[index]
        THEN \* wallet.send throws: sweepCharge emits "error" and rethrows
             /\ EndTask(s)
             /\ last' = <<"sweepCharge", id, <<"error">>>>
             /\ UNCHANGED <<storeVars, fileVars, monitorAccounts, ledgerBalance,
                            sendCount, webhookPosts, autoStopTimers>>
        ELSE LET hash == <<"send", index, sendCount[index] + 1>>
                 c1   == SweptCharge(charge, hash)
                 ch   == [charges EXCEPT ![id] = c1]
             IN /\ ledgerBalance' = [ledgerBalance EXCEPT ![index] = @ - amount]
                /\ sendCount' = [sendCount EXCEPT ![index] = @ + 1]
                /\ charges' = ch
                /\ addressToChargeId' = MapDelete(addressToChargeId, charge.address)
                /\ monitorAccounts' = monitorAccounts \ {charge.address}
                /\ persistStateNow(ch, nextAccountIndex)
                /\ autoStopTimers' = ArmAutoStop(autoStopTimers, 1)
                /\ UNCHANGED nextAccountIndex
                /\ IF WantsWebhook(charge)
                   THEN /\ webhookPosts' =
                             [webhookPosts EXCEPT ![id] =
                                Append(@, WebhookPayload(c1, hash, tasks[s].balance))]
                        /\ tasks' = [tasks EXCEPT ![s].pc = "webhook",
                                                  ![s].hash = hash]
                        /\ last' = Quiet
                        /\ UNCHANGED <<rec, monitorStarted>>
                   ELSE /\ EndTask(s)
                        /\ last' = <<"sweepCharge", id, <<"ok", hash, tasks[s].balance>>>>
                        /\ UNCHANGED webhookPosts
  /\ UNCHANGED <<autoSweep, creator, isRunning, expiryCheckInterval, ledgerPending,
                 payments, events, now, nextId>>

SweepSend(s) == SweepSendWith(s, TRUE)

\* the node refuses the send block, or cannot be reached
SweepSendFails(s) == SweepSendWith(s, FALSE)

\* mutant: a failed POST makes sweepCharge throw
AfterWebhookThrows(ok, hash, amount) ==
  IF ok THEN <<"ok", hash, amount>> ELSE <<"error">>

\* lines 436-444 and 497: a failed POST only emits "webhook:failed" or
\* "webhook:error"; sweepCharge returns its result either way
AfterWebhook(ok, hash, amount) == <<"ok", hash, amount>>

\* callWebhook: fetch answers (ok) or fails (not ok: a non-2xx status or a
\* transport error); sweepCharge then returns its result
WebhookResponse(s, ok) ==
  /\ tasks[s].pc = "webhook"
  /\ LET id == tasks[s].id
         ch == [charges EXCEPT ![id].webhookSent = TRUE]
     IN /\ IF ok
           THEN /\ charges' = ch
                /\ persistStateNow(ch, nextAccountIndex)
           ELSE UNCHANGED <<charges, fileVars>>
        /\ last' = <<"sweepCharge", id,
                     AfterWebhook(ok, tasks[s].hash, tasks[s].balance)>>
  /\ EndTask(s)
  /\ UNCHANGED <<addressToChargeId, nextAccountIndex, autoSweep, creator, autoStopTimers, isRunning,
                 expiryCheckInterval, monitorAccounts, ledgerVars, events,
                 webhookPosts, now, nextId>>

\* ------------------------------------------------------ checkExpiredCharges
Tick ==
  /\ now < MaxTime
  /\ now' = now + 1
  /\ last' = Quiet
  /\ UNCHANGED <<storeVars, autoSweep, creator, autoStopTimers, procVars, fileVars, monitorAccounts,
                 ledgerVars, events, tasks, rec, webhookPosts, nextId>>

\* mutant: a charge expires at its deadline, not after it
IsExpiredAtDeadline(charge) ==
  /\ charge.status \in {"pending", "partial"}
  /\ charge.expiresAt <= now

\* lines 539-542
IsExpired(charge) ==
  /\ charge.status \in {"pending", "partial"}
  /\ charge.expiresAt # NaN
  /\ charge.expiresAt < now

\* line 548
SweepsLeftover(charge) == charge.receivedRaw > 0 /\ autoSweep

ExpiredIds == {id \in DOMAIN charges : IsExpired(charges[id])}

RECURSIVE SpawnAll(_, _)
SpawnAll(ts, ids) ==
  IF ids = <<>> THEN ts ELSE SpawnAll(Spawn(ts, Head(ids)), Tail(ids))

\* one run of the interval callback
CheckExpiredCharges ==
  /\ expiryCheckInterval
  /\ LET sweepIds == {id \in ExpiredIds : SweepsLeftover(charges[id])}
         dropIds  == ExpiredIds \ sweepIds
         dropped  == {charges[id].address : id \in dropIds}
     IN /\ Cardinality(sweepIds) <= Cardinality(FreeSlots(tasks))
        /\ charges' = [id \in DOMAIN charges |->
                         IF id \in ExpiredIds
                         THEN [charges[id] EXCEPT !.status = "expired"]
                         ELSE charges[id]]
        /\ tasks' = SpawnAll(tasks, SetToSeq(sweepIds))
        /\ addressToChargeId' = [a \in DOMAIN addressToChargeId \ dropped |->
                                   addressToChargeId[a]]
        /\ monitorAccounts' = monitorAccounts \ dropped
        /\ IF ExpiredIds # {} THEN persistState ELSE UNCHANGED fileVars
        /\ autoStopTimers' = ArmAutoStop(autoStopTimers, Cardinality(ExpiredIds))
        /\ last' = Quiet
  /\ UNCHANGED <<nextAccountIndex, autoSweep, creator, procVars, ledgerVars, events, rec,
                 webhookPosts, now, nextId>>

\* ---------------------------------------------- start / checkMissedPayments
\* start() up to its first await.  With no active charge checkMissedPayments
\* returns without suspending and start() goes on to call monitor.start().
Start ==
  /\ ~isRunning
  /\ IdleRecs # {}
  /\ isRunning' = TRUE
  /\ LET active == listActiveCharges
         r      == CHOOSE x \in IdleRecs : \A y \in IdleRecs : x <= y
     IN /\ monitorAccounts' = monitorAccounts \cup
                                {charges[active[i]].address : i \in 1..Len(active)}
        /\ rec' = [rec EXCEPT ![r] =
                     IF active = <<>>
                     THEN [NoRec EXCEPT !.pc = "monitorStarting"]
                     ELSE [NoRec EXCEPT !.pc = "getPending", !.queue = active]]
  /\ monitorStarted' = (monitorStarted \/ StartsMonitor(rec, rec'))
  /\ last' = Quiet
  /\ UNCHANGED <<storeVars, autoSweep, creator, autoStopTimers, expiryCheckInterval, fileVars, ledgerVars,
                 events, tasks, webhookPosts, now, nextId>>

\* line 225: wallet.getPendingBlocks answers for the charge at the head
\* (wallet.getPendingBlocks catches a failed query and answers [])
RecGetPendingWith(r, rpcOk) ==
  /\ rec[r].pc = "getPending"
  /\ LET id   == Head(rec[r].queue)
         pend == IF rpcOk
                 THEN SetToSeq(ledgerPending[charges[id].accountIndex])
                 ELSE <<>>
     IN rec' = [rec EXCEPT ![r] =
                  IF pend = <<>> THEN RecNext(rec[r])
                  ELSE [rec[r] EXCEPT !.pc = "receive", !.pend = pend]]
  /\ monitorStarted' = (monitorStarted \/ StartsMonitor(rec, rec'))
  /\ last' = Quiet
  /\ UNCHANGED <<storeVars, autoSweep, creator, autoStopTimers, isRunning, expiryCheckInterval, fileVars,
                 monitorAccounts, ledgerVars, events, tasks, webhookPosts, now,
                 nextId>>

RecGetPending(r) == RecGetPendingWith(r, TRUE)

RecGetPendingFails(r) == RecGetPendingWith(r, FALSE)

\* mutant: a recovered charge is never more than partial
RecoveredStatusPartial(charge) ==
  IF charge.receivedRaw > 0
  THEN [charge EXCEPT !.status = "partial"]
  ELSE charge

\* lines 256-268: status after the pending blocks of a charge were handled
RecoveredStatus(charge) ==
  IF charge.receivedRaw >= charge.amountRaw
  THEN [charge EXCEPT !.status = "completed", !.completedAt = now]
  ELSE IF charge.receivedRaw > 0
  THEN [charge EXCEPT !.status = "partial"]
  ELSE charge

\* lines 233-253: wallet.receive of one pending block answers (or throws, and
\* the error is emitted); after the last block lines 256-268 run
RecReceiveWith(r, rpcOk) ==
  /\ rec[r].pc = "receive"
  /\ LET id    == Head(rec[r].queue)
         index == charges[id].accountIndex
         hash  == Head(rec[r].pend)
         rest  == Tail(rec[r].pend)
         ok    == rpcOk /\ hash \in ledgerPending[index]
         tx    == PaymentTransaction(hash, payments[hash].from,
                                     payments[hash].amount)
         c1    == IF ok THEN ApplyPayment(charges[id], tx) ELSE charges[id]
         c2    == IF rest = <<>> THEN RecoveredStatus(c1) ELSE c1
         ch    == [charges EXCEPT ![id] = c2]
         paid  == c2.receivedRaw >= c2.amountRaw
     IN /\ ledgerPending' = IF ok
                            THEN [ledgerPending EXCEPT ![index] = @ \ {hash}]
                            ELSE ledgerPending
        /\ ledgerBalance' = IF ok
                            THEN [ledgerBalance EXCEPT
                                    ![index] = @ + payments[hash].amount]
                            ELSE ledgerBalance
        /\ charges' = ch
        /\ IF rest # <<>>
           THEN /\ rec' = [rec EXCEPT ![r].pend = rest]
                /\ UNCHANGED <<fileVars, tasks>>
           ELSE IF paid
           THEN /\ persistStateNow(ch, nextAccountIndex)
                /\ IF autoSweep
                   THEN /\ FreeSlots(tasks) # {}
                        /\ tasks' = Spawn(tasks, id)
                        /\ rec' = [rec EXCEPT ![r].pc = "awaitSweep",
                                              ![r].pend = <<>>,
                                              ![r].task = FirstFree(tasks)]
                   ELSE /\ rec' = [rec EXCEPT ![r] = RecNext(rec[r])]
                        /\ UNCHANGED tasks
           ELSE /\ rec' = [rec EXCEPT ![r] = RecNext(rec[r])]
                /\ UNCHANGED tasks
                /\ IF c2.receivedRaw > 0 THEN persistState
                   ELSE UNCHANGED fileVars
        /\ last' = IF ok THEN Quiet ELSE <<"error", id, <<"receive">>>>
  /\ monitorStarted' = (monitorStarted \/ StartsMonitor(rec, rec'))
  /\ UNCHANGED <<addressToChargeId, nextAccountIndex, autoSweep, creator, autoStopTimers, isRunning,
                 expiryCheckInterval, monitorAccounts, payments, sendCount,
                 events, webhookPosts, now, nextId>>

RecReceive(r) == RecReceiveWith(r, TRUE)

RecReceiveFails(r) == RecReceiveWith(r, FALSE)

\* lines 206-213: monitor.start() resolves; the expiry interval is armed
StartFinish(r) ==
  /\ rec[r].pc = "monitorStarting"
  /\ rec' = [rec EXCEPT ![r] = NoRec]
  /\ expiryCheckInterval' = TRUE
  /\ last' = Quiet
  /\ UNCHANGED <<storeVars, autoSweep, creator, autoStopTimers, isRunning, monitorStarted, fileVars,
                 monitorAccounts, ledgerVars, events, tasks, webhookPosts, now,
                 nextId>>

\* ------------------------------------------------------------------- stop
\* stop(); a call that finds nothing to stop changes nothing
Stop ==
  /\ isRunning \/ monitorStarted \/ expiryCheckInterval
  /\ isRunning' = FALSE
  /\ monitorStarted' = FALSE
  /\ events' = {}
  /\ expiryCheckInterval' = FALSE
  /\ last' = Quiet
  /\ UNCHANGED <<storeVars, autoSweep, creator, autoStopTimers, fileVars, monitorAccounts, ledgerVars,
                 tasks, rec, webhookPosts, now, nextId>>

\* ----------------------------------------------------------- deleteCharge
\* mutant: every expired charge may be deleted
CanDeleteAnyExpired(charge) ==
  charge.status \in {"swept", "expired"}

\* lines 570-573
CanDelete(charge) ==
  \/ charge.status = "swept"
  \/ charge.status = "expired" /\ charge.receivedRaw = 0

\* a sweepCharge or start() call that is suspended holds the charge
InFlight(id) ==
  \/ \E s \in DOMAIN tasks : tasks[s].pc # "free" /\ tasks[s].id = id
  \/ \E r \in DOMAIN rec : \E i \in 1..Len(rec[r].queue) : rec[r].queue[i] = id

\* deleteCharge(chargeId), called while no suspended call holds the charge
DeleteCharge(id) ==
  /\ ~InFlight(id)
  /\ IF id \notin DOMAIN charges
     THEN /\ last' = <<"deleteCharge", id, <<"false">>>>
          /\ UNCHANGED <<charges, addressToChargeId, monitorAccounts, fileVars>>
     ELSE IF ~CanDelete(charges[id])
     THEN /\ last' = <<"deleteCharge", id, <<"error">>>>
          /\ UNCHANGED <<charges, addressToChargeId, monitorAccounts, fileVars>>
     ELSE /\ addressToChargeId' = MapDelete(addressToChargeId, charges[id].address)
          /\ charges' = MapDelete(charges, id)
          /\ monitorAccounts' = monitorAccounts \ {charges[id].address}
          /\ persistState
          /\ last' = <<"deleteCharge", id, <<"true">>>>
  /\ UNCHANGED <<nextAccountIndex, autoSweep, creator, autoStopTimers, procVars, ledgerVars, events, tasks,
                 rec, webhookPosts, now, nextId>>

\* ------------------------------------------------------ cleanupSweptCharges
\* mutant: charges that were never paid are removed with the swept ones
IsSweptOrPending(charge) == charge.status \in {"swept", "pending"}

\* line 587
IsSwept(charge) == charge.status = "swept"

SweptIds == {id \in DOMAIN charges : IsSwept(charges[id])}

\* cleanupSweptCharges(), called while no suspended call holds a swept
\* charge; the address index is not touched
CleanupSweptCharges ==
  /\ \A id \in SweptIds : ~InFlight(id)
  /\ charges' = [id \in DOMAIN charges \ SweptIds |-> charges[id]]
  /\ IF SweptIds # {} THEN persistState ELSE UNCHANGED fileVars
  /\ last' = <<"cleanupSweptCharges", Cardinality(SweptIds), <<>>>>
  /\ UNCHANGED <<addressToChargeId, nextAccountIndex, autoSweep, creator, autoStopTimers, procVars,
                 monitorAccounts, ledgerVars, events, tasks, rec, webhookPosts,
                 now, nextId>>

\* ------------------------------------------------------------ importCharges
\* exportCharges(): the charges of the store, in insertion order
exportCharges == [i \in 1..Len(SetToSeq(DOMAIN charges)) |->
                    charges[SetToSeq(DOMAIN charges)[i]]]

\* lines 617-619
Resubscribes(charge) == charge.status \in {"pending", "partial"}

\* importCharges(list) for the list exportCharges() has just returned: every
\* charge is set in both indices, whatever its status
ImportCharges ==
  /\ LET list == exportCharges
         ids  == SetToSeq(DOMAIN charges)
     IN /\ charges' = [id \in DOMAIN charges |->
                         list[CHOOSE i \in 1..Len(ids) : ids[i] = id]]
        /\ addressToChargeId' =
             [a \in DOMAIN addressToChargeId
                      \cup {list[i].address : i \in 1..Len(list)} |->
                IF \E i \in 1..Len(list) : list[i].address = a
                THEN ids[CHOOSE i \in 1..Len(list) :
                           /\ list[i].address = a
                           /\ \A j \in 1..Len(list) :
                                list[j].address = a => j <= i]
                ELSE addressToChargeId[a]]
        /\ monitorAccounts' = monitorAccounts \cup
             {list[i].address : i \in {j \in 1..Len(list) : Resubscribes(list[j])}}
        /\ last' = <<"importCharges", Len(list), <<>>>>
  /\ UNCHANGED <<nextAccountIndex, autoSweep, creator, autoStopTimers, procVars, fileVars, ledgerVars,
                 events, tasks, rec, webhookPosts, now, nextId>>

\* -------------------------------------------------------- checkChargeStatus
RECURSIVE SumPending(_)
SumPending(pend) ==
  IF pend = <<>> THEN 0
  ELSE payments[Head(pend)].amount + SumPending(Tail(pend))

\* lines 523-524
Remaining(required, totalReceived) ==
  IF required > totalReceived THEN required - totalReceived ELSE 0

IsPaid(required, totalReceived) == totalReceived >= required

\* checkChargeStatus(chargeId) up to its first await
CheckChargeStatus(id) ==
  /\ IF id \notin DOMAIN charges
     THEN /\ last' = <<"checkChargeStatus", id, <<"notfound">>>>
          /\ UNCHANGED tasks
     ELSE /\ FreeSlots(tasks) # {}
          /\ tasks' = [tasks EXCEPT ![FirstFree(tasks)] =
                         [NoTask EXCEPT !.pc = "checkPending", !.id = id]]
          /\ last' = Quiet
  /\ UNCHANGED <<storeVars, autoSweep, creator, autoStopTimers, procVars, fileVars, monitorAccounts,
                 ledgerVars, events, rec, webhookPosts, now, nextId>>

\* line 516: wallet.getPendingBlocks answers
CheckGetPending(s) ==
  /\ tasks[s].pc = "checkPending"
  /\ tasks' = [tasks EXCEPT
                 ![s].pend = SetToSeq(ledgerPending[charges[tasks[s].id].accountIndex]),
                 ![s].pc = "checkBalance"]
  /\ last' = Quiet
  /\ UNCHANGED <<storeVars, autoSweep, creator, autoStopTimers, procVars, fileVars, monitorAccounts,
                 ledgerVars, events, rec, webhookPosts, now, nextId>>

\* line 517: wallet.getBalance answers, and the call returns
CheckGetBalance(s) ==
  /\ tasks[s].pc = "checkBalance"
  /\ LET id            == tasks[s].id
         balance       == ledgerBalance[charges[id].accountIndex]
         totalReceived == balance + SumPending(tasks[s].pend)
         required      == charges[id].amountRaw
     IN last' = <<"checkChargeStatus", id,
                  <<IF IsPaid(required, totalReceived) THEN "paid" ELSE "unpaid",
                    Remaining(required, totalReceived)>>>>
  /\ EndTask(s)
  /\ UNCHANGED <<storeVars, autoSweep, creator, autoStopTimers, isRunning, expiryCheckInterval, fileVars,
                 monitorAccounts, ledgerVars, events, webhookPosts, now, nextId>>

\* ------------------------------------------------------------- constructor
\* lines 127-131: the address index holds every loaded charge; of two charges
\* with one address the later in the file wins
LoadedAddresses(ch) ==
  [a \in {ch[id].address : id \in DOMAIN ch} |->
     CHOOSE id \in DOMAIN ch :
       /\ ch[id].address = a
       /\ \A other \in DOMAIN ch : ch[other].address = a => other <= id]

\* the process ends (it is killed, or it exits) and a new PaymentProcessor is
\* constructed over the same snapshot file, ledger and configuration
Restart ==
  /\ LET state == loadPersistedState(persisted)
     IN /\ charges' = state.charges
        /\ addressToChargeId' = LoadedAddresses(state.charges)
        /\ nextAccountIndex' = IF persisted.exists THEN state.nextAccountIndex
                               ELSE StartingIndex
  /\ isRunning' = FALSE
  /\ expiryCheckInterval' = FALSE
  /\ saveDebounceTimer' = 0
  /\ monitorAccounts' = {}
  /\ monitorStarted' = FALSE
  /\ events' = {}
  /\ tasks' = [s \in 1..MaxTasks |-> NoTask]
  /\ rec' = [r \in 1..MaxStarts |-> NoRec]
  /\ last' = <<"constructor", NoVal, <<>>>>
  /\ UNCHANGED <<autoSweep, creator, autoStopTimers, persisted, ledgerVars, webhookPosts, now, nextId>>


\* ------------------------------------------------- the listen command
\* part_000 lines 615-623: a checkAutoStop timeout fires; with no pending or
\* partial charge it calls cleanup (lines 584-592): processor.stop() and
\* process.exit(0), which ends every call that is suspended and drops every
\* timer of the process
CheckAutoStop ==
  /\ autoStopTimers > 0
  /\ IF listActiveCharges = <<>>
     THEN /\ isRunning' = FALSE
          /\ monitorStarted' = FALSE
          /\ expiryCheckInterval' = FALSE
          /\ events' = {}
          /\ tasks' = [s \in 1..MaxTasks |-> NoTask]
          /\ rec' = [r \in 1..MaxStarts |-> [NoRec EXCEPT !.pc = "exited"]]
          /\ saveDebounceTimer' = 0
          /\ autoStopTimers' = 0
          /\ last' = <<"exit", NoVal, <<>>>>
     ELSE /\ autoStopTimers' = autoStopTimers - 1
          /\ last' = Quiet
          /\ UNCHANGED <<procVars, events, tasks, rec, saveDebounceTimer>>
  /\ UNCHANGED <<storeVars, autoSweep, creator, persisted, monitorAccounts,
                 ledgerVars, webhookPosts, now, nextId>>

\* ------------------------------------------------- the charge create command
\* part_000 lines 498-507: a `charge create` process constructs its own
\* PaymentProcessor over the snapshot file (part_001 lines 117-135) and calls
\* createCharge (lines 288-322), which arms the debounce timer of that
\* process; line 510: it then looks whether the listener is running
ChargeCreateCommand(amountRaw, timeoutMs, webhookUrl) ==
  /\ creator.pc # "saving"
  /\ nextId <= MaxShared
  /\ LET state  == loadPersistedState(persisted)
         index  == IF persisted.exists THEN state.nextAccountIndex
                   ELSE StartingIndex
         charge == NewCharge(index, amountRaw, timeoutMs, webhookUrl)
     IN creator' = [pc               |-> "saving",
                    charges          |-> MapSet(state.charges, nextId, charge),
                    nextAccountIndex |-> IncrementIndex(index),
                    listenerRunning  |-> isRunning]
  /\ webhookPosts' = MapSet(webhookPosts, nextId, <<>>)
  /\ nextId' = nextId + 1
  /\ UNCHANGED <<storeVars, autoSweep, procVars, fileVars, monitorAccounts,
                 ledgerVars, events, tasks, rec, now, autoStopTimers, last>>

\* part_001 lines 149-156 in the `charge create` process: its debounce timer
\* fires, the snapshot file is written from its memory, and the process ends
\* (creator keeps what the process held when it ended)
CreatorSaves ==
  /\ creator.pc = "saving"
  /\ persisted' = PersistedState(creator.charges, creator.nextAccountIndex)
  /\ creator' = [creator EXCEPT !.pc = "exited"]
  /\ UNCHANGED <<storeVars, autoSweep, procVars, saveDebounceTimer,
                 monitorAccounts, ledgerVars, events, tasks, rec, webhookPosts,
                 now, nextId, autoStopTimers, last>>

\* the sub-account indices of the charges the create commands printed
PrintedIndices ==
  {creator.charges[id].accountIndex : id \in DOMAIN creator.charges}
    \cup {persisted.charges[id].accountIndex : id \in DOMAIN persisted.charges}
    \cup {charges[id].accountIndex : id \in DOMAIN charges}

\* a customer pays the address a `charge create` command printed
PayPrinted(index, amount, from) ==
  /\ index \in PrintedIndices
  /\ PayTo(index, amount, from)

\* ------------------------------------------------------------ specification
\* the state after new PaymentProcessor(config) with no snapshot file
Init ==
  /\ charges = <<>>
  /\ addressToChargeId = <<>>
  /\ nextAccountIndex = StartingIndex
  /\ autoSweep \in BOOLEAN
  /\ creator = NoCreator
  /\ autoStopTimers = NotListening
  /\ isRunning = FALSE
  /\ expiryCheckInterval = FALSE
  /\ saveDebounceTimer = 0
  /\ persisted = NoFile
  /\ monitorAccounts = {}
  /\ monitorStarted = FALSE
  /\ ledgerPending = [i \in AccountIndices |-> {}]
  /\ ledgerBalance = [i \in AccountIndices |-> 0]
  /\ payments = <<>>
  /\ sendCount = [i \in AccountIndices |-> 0]
  /\ events = {}
  /\ tasks = [s \in 1..MaxTasks |-> NoTask]
  /\ rec = [r \in 1..MaxStarts |-> NoRec]
  /\ webhookPosts = <<>>
  /\ now = 1
  /\ nextId = 1
  /\ last = Quiet

Next ==
  \/ \E a \in ReqAmounts, t \in Timeouts, w \in WebhookUrls : CreateCharge(a, t, w)
  \/ \E i \in AccountIndices, a \in Amounts, f \in Senders : Pay(i, a, f)
  \/ \E h \in 1..MaxPayments : HandlePayment(h)
  \/ \E id \in 1..MaxCharges : SweepCharge(id)
  \/ \E s \in 1..MaxTasks : SweepGetPending(s)
  \/ \E s \in 1..MaxTasks : SweepReceive(s)
  \/ \E s \in 1..MaxTasks : SweepGetBalance(s)
  \/ \E s \in 1..MaxTasks : SweepSend(s)
  \/ \E s \in 1..MaxTasks, ok \in BOOLEAN : WebhookResponse(s, ok)
  \/ Tick
  \/ CheckExpiredCharges
  \/ Start
  \/ \E r \in 1..MaxStarts : RecGetPending(r)
  \/ \E r \in 1..MaxStarts : RecReceive(r)
  \/ \E r \in 1..MaxStarts : StartFinish(r)
  \/ SaveTimerFire
  \/ \E id \in 1..MaxCharges : DeleteCharge(id)

Spec == Init /\ [][Next]_vars

\* The store on its own: charges are created, the processor is started and
\* the clock runs, but no customer pays.
CreateStoreCharge(amountRaw, timeoutMs, webhookUrl) ==
  CreateChargeUpTo(MaxStore, amountRaw, timeoutMs, webhookUrl)

NextStore ==
  \/ \E a \in ReqAmounts, t \in Timeouts, w \in WebhookUrls :
       CreateStoreCharge(a, t, w)
  \/ Tick
  \/ CheckExpiredCharges
  \/ Start
  \/ \E r \in 1..MaxStarts : RecGetPending(r)
  \/ \E r \in 1..MaxStarts : StartFinish(r)
  \/ SaveTimerFire

SpecStore == Init /\ [][NextStore]_vars

\* The processor with crashes: at any point the process may end and a new
\* one be constructed from the snapshot file.
NextCrash ==
  \/ Next
  \/ Restart

SpecCrash == Init /\ [][NextCrash]_vars

\* The life cycle: start() and stop() in any order around one charge without
\* a webhook; sweeps are started by the processor only.
NextLife ==
  \/ \E a \in ReqAmounts, t \in Timeouts : CreateCharge(a, t, FALSE)
  \/ \E i \in AccountIndices, a \in Amounts, f \in Senders : Pay(i, a, f)
  \/ \E h \in 1..MaxPayments : HandlePayment(h)
  \/ \E s \in 1..MaxTasks : SweepGetPending(s)
  \/ \E s \in 1..MaxTasks : SweepReceive(s)
  \/ \E s \in 1..MaxTasks : SweepGetBalance(s)
  \/ \E s \in 1..MaxTasks : SweepSend(s)
  \/ Tick
  \/ CheckExpiredCharges
  \/ Start
  \/ Stop
  \/ \E r \in 1..MaxStarts : RecGetPending(r)
  \/ \E r \in 1..MaxStarts : RecReceive(r)
  \/ \E r \in 1..MaxStarts : StartFinish(r)

SpecLife == Init /\ [][NextLife]_vars

\* blocks customers sent while no process was running
MissedPayments(n) ==
  UNION {[1..k -> [to : StartingIndex..(StartingIndex + n - 1),
                   amount : Amounts, from : Senders]] : k \in 0..MaxPayments}

\* the state after new PaymentProcessor(config) over a snapshot file that
\* holds n pending charges, written by an earlier process at time 1
InitRestartWith(timers) ==
  /\ now = 1
  /\ autoSweep \in BOOLEAN
  /\ creator = NoCreator
  /\ autoStopTimers = timers
  /\ \E n \in 1..MaxRecover, w \in WebhookUrls :
       /\ persisted =
            PersistedState([id \in 1..n |->
                              NewCharge(StartingIndex + id - 1, MaxAmount, 0, w)],
                           StartingIndex + n)
       /\ payments \in MissedPayments(n)
       /\ webhookPosts = [id \in 1..n |-> <<>>]
       /\ nextId = n + 1
  /\ charges = loadPersistedState(persisted).charges
  /\ addressToChargeId = LoadedAddresses(charges)
  /\ nextAccountIndex = persisted.nextAccountIndex
  /\ isRunning = FALSE
  /\ expiryCheckInterval = FALSE
  /\ saveDebounceTimer = 0
  /\ monitorAccounts = {}
  /\ monitorStarted = FALSE
  /\ ledgerPending = [i \in AccountIndices |->
                        {h \in 1..Len(payments) : payments[h].to = i}]
  /\ ledgerBalance = [i \in AccountIndices |-> 0]
  /\ sendCount = [i \in AccountIndices |-> 0]
  /\ events = {}
  /\ tasks = [s \in 1..MaxTasks |-> NoTask]
  /\ rec = [r \in 1..MaxStarts |-> NoRec]
  /\ last = <<"constructor", NoVal, <<>>>>

\* the processor is constructed by a program that uses it as a library
InitRestart == InitRestartWith(NotListening)

\* part_000 lines 568-582: the processor is constructed by the listen command
InitListen == InitRestartWith(0)

\* the steps of the processor that the event loop runs once the node or the
\* endpoint has answered
RecoverySteps ==
  \/ \E r \in 1..MaxStarts : RecGetPending(r)
  \/ \E r \in 1..MaxStarts : RecReceive(r)
  \/ \E r \in 1..MaxStarts : StartFinish(r)
  \/ \E s \in 1..MaxTasks : SweepGetPending(s)
  \/ \E s \in 1..MaxTasks : SweepReceive(s)
  \/ \E s \in 1..MaxTasks : SweepGetBalance(s)
  \/ \E s \in 1..MaxTasks : SweepSend(s)
  \/ \E s \in 1..MaxTasks, ok \in BOOLEAN : WebhookResponse(s, ok)

\* A restart: the new process is started, every ledger call succeeds, and
\* customers may go on paying.
NextRestart ==
  \/ Start
  \/ RecoverySteps
  \/ \E i \in AccountIndices, a \in Amounts, f \in Senders : Pay(i, a, f)
  \/ \E h \in 1..MaxPayments : HandlePayment(h)
  \/ Tick
  \/ CheckExpiredCharges
  \/ SaveTimerFire

SpecRestart == InitRestart /\ [][NextRestart]_vars

\* start() is called, and every call to the node or the endpoint is answered
FairSpecRestart ==
  /\ InitRestart
  /\ [][NextRestart]_vars
  /\ WF_vars(Start)
  /\ WF_vars(RecoverySteps)

\* A restart with a ledger node that may fail any call of the recovery scan.
NextRecovery ==
  \/ Start
  \/ RecoverySteps
  \/ \E r \in 1..MaxStarts : RecGetPendingFails(r)
  \/ \E r \in 1..MaxStarts : RecReceiveFails(r)
  \/ \E s \in 1..MaxTasks : SweepReceiveFails(s)
  \/ \E s \in 1..MaxTasks : SweepSendFails(s)

SpecRecovery == InitRestart /\ [][NextRecovery]_vars

\* Maintenance: the store of one process with its housekeeping operations
\* (deleteCharge, cleanupSweptCharges, importCharges) and reloads from the
\* snapshot file; charges have no webhook.
NextAdmin ==
  \/ \E a \in ReqAmounts, t \in Timeouts : CreateCharge(a, t, FALSE)
  \/ \E i \in AccountIndices, a \in Amounts, f \in Senders : Pay(i, a, f)
  \/ \E h \in 1..MaxPayments : HandlePayment(h)
  \/ \E id \in 1..MaxCharges : SweepCharge(id)
  \/ \E s \in 1..MaxTasks : SweepGetPending(s)
  \/ \E s \in 1..MaxTasks : SweepReceive(s)
  \/ \E s \in 1..MaxTasks : SweepGetBalance(s)
  \/ \E s \in 1..MaxTasks : SweepSend(s)
  \/ Tick
  \/ CheckExpiredCharges
  \/ Start
  \/ \E r \in 1..MaxStarts : RecGetPending(r)
  \/ \E r \in 1..MaxStarts : RecReceive(r)
  \/ \E r \in 1..MaxStarts : StartFinish(r)
  \/ SaveTimerFire
  \/ \E id \in 1..MaxCharges : DeleteCharge(id)
  \/ CleanupSweptCharges
  \/ ImportCharges
  \/ Restart

SpecAdmin == Init /\ [][NextAdmin]_vars

\* Status checks: a caller polls checkChargeStatus while customers pay and
\* sweeps settle the funds.
NextStatus ==
  \/ \E a \in ReqAmounts, t \in Timeouts, w \in WebhookUrls : CreateCharge(a, t, w)
  \/ \E i \in AccountIndices, a \in Amounts, f \in Senders : Pay(i, a, f)
  \/ \E id \in 1..MaxCharges : SweepCharge(id)
  \/ \E s \in 1..MaxTasks : SweepGetPending(s)
  \/ \E s \in 1..MaxTasks : SweepReceive(s)
  \/ \E s \in 1..MaxTasks : SweepGetBalance(s)
  \/ \E s \in 1..MaxTasks : SweepSend(s)
  \/ \E s \in 1..MaxTasks, ok \in BOOLEAN : WebhookResponse(s, ok)
  \/ \E id \in 1..MaxCharges : CheckChargeStatus(id)
  \/ \E s \in 1..MaxTasks : CheckGetPending(s)
  \/ \E s \in 1..MaxTasks : CheckGetBalance(s)
  \/ SaveTimerFire

SpecStatus == Init /\ [][NextStatus]_vars

\* History cleanup: several charges, some of them paid and swept on demand,
\* and cleanupSweptCharges at any point.
NextCleanup ==
  \/ \E a \in ReqAmounts, t \in Timeouts : CreateStoreCharge(a, t, FALSE)
  \/ \E i \in AccountIndices, a \in Amounts, f \in Senders : Pay(i, a, f)
  \/ \E id \in 1..MaxStore : SweepCharge(id)
  \/ \E s \in 1..MaxTasks : SweepGetPending(s)
  \/ \E s \in 1..MaxTasks : SweepReceive(s)
  \/ \E s \in 1..MaxTasks : SweepGetBalance(s)
  \/ \E s \in 1..MaxTasks : SweepSend(s)
  \/ CleanupSweptCharges
  \/ SaveTimerFire

SpecCleanup == Init /\ [][NextCleanup]_vars

\* Sweeps against a ledger node that may fail any call: charges are paid
\* and swept on demand.
NextSweepFail ==
  \/ \E a \in ReqAmounts, t \in Timeouts, w \in WebhookUrls : CreateCharge(a, t, w)
  \/ \E i \in AccountIndices, a \in Amounts, f \in Senders : Pay(i, a, f)
  \/ \E id \in 1..MaxCharges : SweepCharge(id)
  \/ \E s \in 1..MaxTasks : SweepGetPending(s)
  \/ \E s \in 1..MaxTasks : SweepGetPendingFails(s)
  \/ \E s \in 1..MaxTasks : SweepReceive(s)
  \/ \E s \in 1..MaxTasks : SweepReceiveFails(s)
  \/ \E s \in 1..MaxTasks : SweepGetBalance(s)
  \/ \E s \in 1..MaxTasks : SweepGetBalanceFails(s)
  \/ \E s \in 1..MaxTasks : SweepSend(s)
  \/ \E s \in 1..MaxTasks : SweepSendFails(s)
  \/ \E s \in 1..MaxTasks, ok \in BOOLEAN : WebhookResponse(s, ok)
  \/ SaveTimerFire

SpecSweepFail == Init /\ [][NextSweepFail]_vars

\* The store with crashes: charges are created, expire, are deleted, cleaned
\* up and imported, and the process may end at any point and a new one be
\* constructed from the snapshot file; no customer pays.
NextStoreCrash ==
  \/ NextStore
  \/ \E id \in 1..MaxStore : DeleteCharge(id)
  \/ CleanupSweptCharges
  \/ ImportCharges
  \/ Restart

SpecStoreCrash == Init /\ [][NextStoreCrash]_vars

\* Repeated events: a started processor whose monitor may deliver the
\* payment event of a block more than once.
NextDup ==
  \/ \E a \in ReqAmounts, t \in Timeouts, w \in WebhookUrls : CreateCharge(a, t, w)
  \/ Start
  \/ \E r \in 1..MaxStarts : RecGetPending(r)
  \/ \E r \in 1..MaxStarts : RecReceive(r)
  \/ \E r \in 1..MaxStarts : StartFinish(r)
  \/ \E i \in AccountIndices, a \in Amounts, f \in Senders : Pay(i, a, f)
  \/ \E h \in 1..MaxPayments : Redeliver(h)
  \/ \E h \in 1..MaxPayments : HandlePayment(h)
  \/ \E s \in 1..MaxTasks : SweepGetPending(s)
  \/ \E s \in 1..MaxTasks : SweepReceive(s)
  \/ \E s \in 1..MaxTasks : SweepGetBalance(s)
  \/ \E s \in 1..MaxTasks : SweepSend(s)
  \/ \E s \in 1..MaxTasks, ok \in BOOLEAN : WebhookResponse(s, ok)
  \/ SaveTimerFire

SpecDup == Init /\ [][NextDup]_vars

\* an armed save timeout fires
FairSpecDup ==
  /\ Init
  /\ [][NextDup]_vars
  /\ WF_vars(SaveTimerFire)

\* the steps of sweepCharge calls that the event loop runs once the node or
\* the endpoint has answered
SweepSteps ==
  \/ \E s \in 1..MaxTasks : SweepGetPending(s)
  \/ \E s \in 1..MaxTasks : SweepReceive(s)
  \/ \E s \in 1..MaxTasks : SweepGetBalance(s)
  \/ \E s \in 1..MaxTasks : SweepSend(s)
  \/ \E s \in 1..MaxTasks, ok \in BOOLEAN : WebhookResponse(s, ok)

\* The listener: charges are created and the processor is started once;
\* customers pay, the clock runs, and every sweep is started by the
\* processor itself; every ledger call succeeds.
NextLive ==
  \/ \E a \in ReqAmounts, t \in Timeouts, w \in WebhookUrls : CreateCharge(a, t, w)
  \/ Start
  \/ \E r \in 1..MaxStarts : RecGetPending(r)
  \/ \E r \in 1..MaxStarts : RecReceive(r)
  \/ \E r \in 1..MaxStarts : StartFinish(r)
  \/ \E i \in AccountIndices, a \in Amounts, f \in Senders : Pay(i, a, f)
  \/ \E h \in 1..MaxPayments : HandlePayment(h)
  \/ SweepSteps
  \/ Tick
  \/ CheckExpiredCharges
  \/ SaveTimerFire

SpecLive == Init /\ [][NextLive]_vars

\* every call to the node or the endpoint is answered
FairSpecLive ==
  /\ Init
  /\ [][NextLive]_vars
  /\ WF_vars(SweepSteps)

\* The listener against a ledger node that may fail any call of a sweep.
NextLiveFail ==
  \/ NextLive
  \/ \E s \in 1..MaxTasks : SweepGetPendingFails(s)
  \/ \E s \in 1..MaxTasks : SweepReceiveFails(s)
  \/ \E s \in 1..MaxTasks : SweepGetBalanceFails(s)
  \/ \E s \in 1..MaxTasks : SweepSendFails(s)

SpecLiveFail == Init /\ [][NextLiveFail]_vars

\* every call is answered, with a result or with a failure, the timers fire
\* and start() is called
FairSpecLiveFail ==
  /\ Init
  /\ [][NextLiveFail]_vars
  /\ WF_vars(SweepSteps)
  /\ WF_vars(Start)
  /\ WF_vars(CheckExpiredCharges)
  /\ WF_vars(SaveTimerFire)

\* The recovery scan: a restarted process is started once, every ledger call
\* succeeds, and customers may go on paying.
NextScan ==
  \/ Start
  \/ RecoverySteps
  \/ \E i \in AccountIndices, a \in Amounts, f \in Senders : Pay(i, a, f)
  \/ \E h \in 1..MaxPayments : HandlePayment(h)

SpecScan == InitRestart /\ [][NextScan]_vars

\* A restart whose process may be killed at any point and started again.
NextScanCrash ==
  \/ NextScan
  \/ SaveTimerFire
  \/ Restart

SpecScanCrash == InitRestart /\ [][NextScanCrash]_vars

\* The command line: `charge create` processes and the background listener
\* process (constructed by Restart) work on one snapshot file; the listener
\* creates no charges itself, and no charge reaches its expiry time.
NextShared ==
  \/ \E a \in ReqAmounts, t \in Timeouts, w \in WebhookUrls :
       ChargeCreateCommand(a, t, w)
  \/ CreatorSaves
  \/ Restart
  \/ Start
  \/ RecoverySteps
  \/ \E i \in AccountIndices, a \in Amounts, f \in Senders : PayPrinted(i, a, f)
  \/ \E h \in 1..MaxPayments : HandlePayment(h)
  \/ SaveTimerFire

SpecShared == Init /\ [][NextShared]_vars

\* The listen command: the listener is started over the snapshot file,
\* customers pay, charges expire, and checkAutoStop may end the process.
NextListen ==
  \/ Start
  \/ RecoverySteps
  \/ \E i \in AccountIndices, a \in Amounts, f \in Senders : Pay(i, a, f)
  \/ \E h \in 1..MaxPayments : HandlePayment(h)
  \/ Tick
  \/ CheckExpiredCharges
  \/ SaveTimerFire
  \/ CheckAutoStop

SpecListen == InitListen /\ [][NextListen]_vars

\* ================================================================= claims
Rank(status) ==
  CASE status = "pending"   -> 0
    [] status = "partial"   -> 1
    [] status = "completed" -> 2
    [] status = "expired"   -> 2
    [] status = "swept"     -> 3

Kept == DOMAIN charges \cap DOMAIN charges'

\* C1: no step lowers the status of a charge in the order
\* pending < partial < {completed, expired} < swept, and no step changes a
\* charge between completed and expired.
C1_StatusNeverMovesBackward ==
  [][\A id \in Kept :
       /\ Rank(charges'[id].status) >= Rank(charges[id].status)
       /\ (Rank(charges'[id].status) = Rank(charges[id].status)
             => charges'[id].status = charges[id].status)]_vars

\* C2: in every reachable state the received amount of every charge is the
\* sum of the amounts in its transaction list.
C2_ReceivedIsSumOfTransactions ==
  \A id \in DOMAIN charges :
    charges[id].receivedRaw = SumTx(charges[id].transactions)

\* C2 witness: a charge with two applied payments
C2_Witness ==
  \E id \in DOMAIN charges :
    /\ Len(charges[id].transactions) = 2
    /\ charges[id].receivedRaw > charges[id].transactions[1].amountRaw

\* C3: a swept charge with a notification target has had exactly one webhook
\* POST issued for it: never zero and never two.
C3_ExactlyOneWebhookPost ==
  \A id \in DOMAIN charges :
    (charges[id].webhookUrl /\ charges[id].status = "swept")
      => Len(webhookPosts[id]) = 1

\* C4: the sub-account indices of the charges strictly increase in the order
\* of the createCharge calls (ids are handed out in call order), the
\* addresses are pairwise distinct, and every call has advanced
\* nextAccountIndex by exactly one.
C4_DistinctIncreasingIndices ==
  /\ \A i, j \in DOMAIN charges :
       i < j => /\ charges[i].accountIndex < charges[j].accountIndex
                /\ charges[i].address # charges[j].address
  /\ \A i \in DOMAIN charges : charges[i].accountIndex < nextAccountIndex
  /\ nextAccountIndex = StartingIndex + (nextId - 1)

\* C4 witness: three charges have been created
C4_Witness == Cardinality(DOMAIN charges) = 3

\* a step in which the ledger processes a send block of the charge's account
SendSucceeds(id) ==
  sendCount'[charges[id].accountIndex] = sendCount[charges[id].accountIndex] + 1

\* the sweepCharge call whose send the ledger processes in this step
SendingTasks(id) ==
  {s \in DOMAIN tasks : /\ tasks[s].id = id
                        /\ tasks[s].pc = "send"
                        /\ tasks'[s] # tasks[s]}

SweepHash(id) ==
  <<"send", charges[id].accountIndex, sendCount'[charges[id].accountIndex]>>

\* C5: when the send of a sweep of a completed charge succeeds, the amount
\* sent is the balance read after settling (all of it when nothing was
\* settled in between), the status is swept, the sweep time and the hash
\* returned by the send are recorded, the address is gone from the address
\* index and from the monitor, the charge is still in the store, the snapshot
\* file holds the swept charge, and without a pending webhook the call returns
\* the hash and the amount.
C5_SweepOfCompletedCharge ==
  [][\A id \in DOMAIN charges :
       (charges[id].status = "completed" /\ SendSucceeds(id)) =>
         LET index == charges[id].accountIndex
         IN /\ \E s \in SendingTasks(id) :
                 /\ tasks[s].balance > 0
                 /\ ledgerBalance'[index] = ledgerBalance[index] - tasks[s].balance
                 /\ (tasks[s].balance = ledgerBalance[index]
                       => ledgerBalance'[index] = 0)
                 /\ (tasks'[s].pc = "free"
                       => last' = <<"sweepCharge", id,
                                    <<"ok", SweepHash(id), tasks[s].balance>>>>)
            /\ id \in DOMAIN charges'
            /\ charges'[id].status = "swept"
            /\ charges'[id].sweptAt = now
            /\ charges'[id].sweepTxHash = SweepHash(id)
            /\ charges[id].address \notin DOMAIN addressToChargeId'
            /\ charges[id].address \notin monitorAccounts'
            /\ persisted'.exists
            /\ id \in DOMAIN persisted'.charges
            /\ persisted'.charges[id].status = "swept"
            /\ persisted'.charges[id] = ToJSON(charges'[id])]_vars

\* C5 witness: a completed charge has been swept
C5_Witness ==
  \E id \in DOMAIN charges :
    /\ charges[id].status = "swept"
    /\ charges[id].completedAt # NoVal
    /\ charges[id].sweepTxHash # NoHash
    /\ sendCount[charges[id].accountIndex] = 1

\* a step that handles the payment event of block hash
Handles(hash) == hash \in events /\ hash \notin events'

Owner(hash) == getChargeByAddress(deriveAccount(payments[hash].to))

Spawned(id) ==
  {s \in DOMAIN tasks : /\ tasks[s].pc = "free"
                        /\ tasks'[s].pc = "getPending"
                        /\ tasks'[s].id = id}

\* C6: handling a payment event for a pending or partial charge appends one
\* entry with the event's hash, sender and amount, adds the amount to
\* received, and makes the charge partial when received is still below the
\* required amount, otherwise completed with the completion time set and the
\* snapshot file written in the same step; a completed charge is handed to
\* sweepCharge at once when autoSweep is on, and with autoSweep off no sweep
\* call starts and the ledger is not touched.
C6_PaymentApplied ==
  [][\A hash \in events :
       (/\ Handles(hash)
        /\ Owner(hash) # NoVal
        /\ charges[Owner(hash)].status \in {"pending", "partial"}) =>
         LET id     == Owner(hash)
             old    == charges[id]
             new    == charges'[id]
             amount == payments[hash].amount
         IN /\ new.transactions =
                 Append(old.transactions,
                        [hash |-> hash, from |-> payments[hash].from,
                         amountRaw |-> amount])
            /\ new.receivedRaw = old.receivedRaw + amount
            /\ IF new.receivedRaw < new.amountRaw
               THEN /\ new.status = "partial"
                    /\ new.completedAt = NoVal
                    /\ Spawned(id) = {}
               ELSE /\ new.status = "completed"
                    /\ new.completedAt = now
                    /\ persisted' = PersistedState(charges', nextAccountIndex')
                    /\ autoSweep => Cardinality(Spawned(id)) = 1
            /\ ~autoSweep => (tasks' = tasks /\ UNCHANGED ledgerVars)]_vars

\* C6 witness: a live payment has completed a charge that was partial
C6_Witness ==
  \E id \in DOMAIN charges :
    /\ last = <<"handlePayment", 2, <<"completed">>>>
    /\ Len(charges[id].transactions) = 2
    /\ charges[id].status = "completed"

\* the charge that owns the address a block was sent to, registered or not
Recipients(hash) ==
  {id \in DOMAIN charges : charges[id].accountIndex = payments[hash].to}

\* C7: handling a payment event whose address belongs to a completed, expired
\* or swept charge changes nothing: not the charge, not the indices, not the
\* snapshot file or its timer, and no sweep call starts.
C7_PaymentIgnored ==
  [][\A hash \in events :
       (/\ Handles(hash)
        /\ \E id \in Recipients(hash) :
             charges[id].status \in {"completed", "expired", "swept"}) =>
         /\ UNCHANGED <<charges, addressToChargeId, nextAccountIndex>>
         /\ UNCHANGED <<persisted, saveDebounceTimer>>
         /\ UNCHANGED <<tasks, ledgerPending, ledgerBalance, sendCount,
                        webhookPosts, monitorAccounts>>]_vars

\* C7 witness: an event for a charge that is no longer active was dropped
C7_Witness ==
  /\ last[1] = "handlePayment"
  /\ last[3] = <<"ignored">>
  /\ \E id \in Recipients(last[2]) :
       charges[id].status \in {"completed", "expired", "swept"}

BecomesSwept(id) ==
  charges[id].status # "swept" /\ charges'[id].status = "swept"

\* C8 as stated: a charge becomes swept only from completed, or from expired
\* with received > 0.
C8_SweptOnlyFromCompletedOrExpired ==
  [][\A id \in Kept :
       BecomesSwept(id) =>
         \/ charges[id].status = "completed"
         \/ charges[id].status = "expired" /\ charges[id].receivedRaw > 0]_vars

\* C8 amended: a charge becomes swept only in the step in which the send of a
\* sweepCharge call on it succeeds for the nonzero balance that call read;
\* the status it leaves may be any status other than swept.
C8_SweptOnlyBySuccessfulSend ==
  [][\A id \in Kept :
       BecomesSwept(id) =>
         /\ SendSucceeds(id)
         /\ \E s \in SendingTasks(id) :
              /\ tasks[s].balance > 0
              /\ ledgerBalance'[charges[id].accountIndex] =
                   ledgerBalance[charges[id].accountIndex] - tasks[s].balance]_vars

\* C8 witness: a charge that never completed or expired has been swept
C8_Witness ==
  \E id \in DOMAIN charges :
    /\ charges[id].status = "swept"
    /\ charges[id].completedAt = NoVal
    /\ charges[id].receivedRaw = 0
    /\ sendCount[charges[id].accountIndex] = 1

\* the sweepCharge calls that learn the balance in this step
ReadingTasks ==
  {s \in DOMAIN tasks : tasks[s].pc = "getBalance" /\ tasks'[s] # tasks[s]}

\* C9: a sweepCharge call that reads a zero balance after settling returns
\* null, no send block is processed, and the charge (status, sweep time,
\* sweep hash, notification flag), its address registration and the number of
\* POSTs are unchanged.
C9_ZeroBalanceNothingToSweep ==
  [][\A s \in ReadingTasks :
       ledgerBalance[charges[tasks[s].id].accountIndex] = 0 =>
         /\ last' = <<"sweepCharge", tasks[s].id, <<"null">>>>
         /\ tasks'[s].pc = "free"
         /\ UNCHANGED <<charges, addressToChargeId, monitorAccounts>>
         /\ UNCHANGED <<sendCount, ledgerBalance, webhookPosts>>]_vars

\* C9 witness: a call on a charge that is not swept returned null
C9_Witness ==
  /\ last[1] = "sweepCharge"
  /\ last[3] = <<"null">>
  /\ last[2] \in DOMAIN charges
  /\ charges[last[2]].status = "completed"
  /\ ledgerBalance[charges[last[2]].accountIndex] = 0

\* C10: sweepCharge with an id that is not in the store throws "Charge not
\* found", and on a swept charge it returns null; either way nothing else
\* changes: no sweep call is left in flight, no ledger call, no POST, no
\* change of the store or of the snapshot file.
C10_SweepUnknownOrSwept ==
  [][\A id \in 1..MaxCharges :
       (/\ SweepCharge(id)
        /\ (id \notin DOMAIN charges \/ charges[id].status = "swept")) =>
         /\ last' = <<"sweepCharge", id,
                      IF id \in DOMAIN charges THEN <<"null">>
                      ELSE <<"notfound">>>>
         /\ UNCHANGED <<charges, addressToChargeId, nextAccountIndex, autoSweep, creator, autoStopTimers,
                        isRunning, expiryCheckInterval, saveDebounceTimer,
                        persisted, monitorAccounts, monitorStarted,
                        ledgerPending, ledgerBalance, payments, sendCount,
                        events, tasks, rec, webhookPosts, now, nextId>>]_vars

\* C10 witness: a call on a swept charge has returned null
C10_Witness ==
  /\ last[1] = "sweepCharge"
  /\ last[3] = <<"null">>
  /\ last[2] \in DOMAIN charges
  /\ charges[last[2]].status = "swept"
  /\ \A s \in DOMAIN tasks : tasks[s].pc = "free"

InSnapshot(id) == persisted.exists /\ id \in DOMAIN persisted.charges

C12_ChargesSurviveRestart ==
  [][Restart =>
       \A id \in DOMAIN charges :
         /\ id \in DOMAIN charges'
         /\ charges'[id].address = charges[id].address
         /\ charges'[id].accountIndex = charges[id].accountIndex
         /\ charges'[id].amountRaw = charges[id].amountRaw]_vars

InRecovery ==
  \E r \in DOMAIN rec : rec[r].pc \in {"getPending", "receive", "awaitSweep"}

\* C14: while the recovery scan of a start() call is in progress the monitor
\* has not been started and the expiry timer is not armed, and no step
\* handles a live payment event or runs an expiry scan.
C14_RecoveryBeforeMonitorAndTimer ==
  [][InRecovery =>
       /\ ~monitorStarted
       /\ ~expiryCheckInterval
       /\ \A hash \in events : ~Handles(hash)
       /\ ~CheckExpiredCharges]_vars

RECURSIVE SumAmounts(_)
SumAmounts(hashes) ==
  IF hashes = <<>> THEN 0
  ELSE payments[Head(hashes)].amount + SumAmounts(Tail(hashes))

\* the receivable blocks of the charge's account cover its required amount
Covered(id) ==
  SumAmounts(SetToSeq(ledgerPending[charges[id].accountIndex]))
    >= charges[id].amountRaw

\* a process has just been constructed from a snapshot that holds the charge
\* as pending, and the ledger holds enough receivable blocks for it
RestartedWithMissedPayment(id) ==
  /\ last[1] = "constructor"
  /\ id \in DOMAIN charges
  /\ charges[id].status = "pending"
  /\ Covered(id)

\* the charge has reached its final status and start() has not returned yet
RecoveredInsideStart(id) ==
  /\ id \in DOMAIN charges
  /\ charges[id].status = IF autoSweep THEN "swept" ELSE "completed"
  /\ charges[id].completedAt # NoVal
  /\ charges[id].receivedRaw >= charges[id].amountRaw
  /\ ~expiryCheckInterval

\* C15: after a restart from a snapshot with a pending charge whose account
\* has receivable blocks covering the required amount, start() leads to the
\* charge being completed, and with autoSweep swept, before start() returns,
\* that is by the recovery scan.
C15_RestartRecoversPayment ==
  \A id \in 1..MaxRecover :
    RestartedWithMissedPayment(id) ~> RecoveredInsideStart(id)

\* C15 witness: the second of two charges was recovered and swept while
\* start() was still running and no event had been emitted
C15_Witness ==
  /\ 2 \in DOMAIN charges
  /\ charges[2].status = "swept"
  /\ charges[2].completedAt # NoVal
  /\ Len(charges[2].transactions) = 2
  /\ ~expiryCheckInterval
  /\ ~monitorStarted

\* the charge a recovery scan is working on
Current(r) == Head(rec[r].queue)

\* an error event for the charge is emitted in this step
ErrorReported(id) ==
  \/ last' = <<"error", id, <<"receive">>>>
  \/ last' = <<"sweepCharge", id, <<"error">>>>
  \/ last' = <<"error", id, <<"query">>>>

\* C16: when a ledger call of the recovery scan fails for a charge (the query
\* for receivable blocks although there are some, the settlement of a
\* receivable block, or a call of the sweep the scan awaits), an error event
\* for that charge is emitted in that step, and the scan goes on: with the
\* next block, or with the next charge, or start() proceeds to start the
\* monitor.
C16_RecoveryFailuresReported ==
  [][\A r \in DOMAIN rec :
       /\ (/\ RecGetPendingFails(r)
           /\ ledgerPending[charges[Current(r)].accountIndex] # {})
            => (ErrorReported(Current(r)) /\ rec'[r] = RecNext(rec[r]))
       /\ (/\ RecReceiveFails(r)
           /\ Head(rec[r].pend) \in ledgerPending[charges[Current(r)].accountIndex])
            => /\ ErrorReported(Current(r))
               /\ \/ rec'[r] = [rec[r] EXCEPT !.pend = Tail(@)]
                  \/ rec'[r] = RecNext(rec[r])
                  \/ rec'[r].pc = "awaitSweep"
       /\ (/\ rec[r].pc = "awaitSweep"
           /\ SweepReceiveFails(rec[r].task) \/ SweepSendFails(rec[r].task))
            => (ErrorReported(Current(r)) /\ rec'[r] = RecNext(rec[r]))]_vars

\* C17: an expiry scan makes expired exactly the charges that are pending or
\* partial and whose deadline is strictly before the time of the scan; every
\* other charge (not yet due, completed, expired, swept) keeps its status,
\* and no charge leaves the store.
C17_ExpiryScanMarksDueCharges ==
  [][CheckExpiredCharges =>
       /\ DOMAIN charges' = DOMAIN charges
       /\ \A id \in DOMAIN charges :
            IF /\ charges[id].status \in {"pending", "partial"}
               /\ charges[id].expiresAt < now
            THEN charges'[id].status = "expired"
            ELSE charges'[id].status = charges[id].status]_vars

\* C17 witness: a partial charge has been made expired
C17_Witness ==
  \E id \in DOMAIN charges :
    /\ charges[id].status = "expired"
    /\ charges[id].receivedRaw > 0
    /\ charges[id].expiresAt < now

\* a step of the expiry scan that makes the charge expired
Expires(id) ==
  /\ CheckExpiredCharges
  /\ charges[id].status # "expired"
  /\ charges'[id].status = "expired"

Registered(id) ==
  /\ charges[id].address \in DOMAIN addressToChargeId
  /\ charges[id].address \in monitorAccounts

\* C18: when the expiry scan makes a charge expired, then with a nonzero
\* received amount a sweepCharge call on it starts and its address stays in
\* the address index and the monitor, and with a zero received amount the
\* address leaves both and no sweepCharge call starts; the address of an
\* expired charge with a nonzero received amount leaves the address index
\* only in the step that makes the charge swept.
C18_ExpiredChargeSweptOrUnregistered ==
  [][\A id \in Kept :
       /\ Expires(id) =>
            IF charges[id].receivedRaw > 0
            THEN /\ Cardinality(Spawned(id)) = 1
                 /\ Registered(id) => Registered(id)'
            ELSE /\ Spawned(id) = {}
                 /\ charges[id].address \notin DOMAIN addressToChargeId'
                 /\ charges[id].address \notin monitorAccounts'
       /\ (/\ charges[id].status = "expired"
           /\ charges[id].receivedRaw > 0
           /\ charges[id].address \in DOMAIN addressToChargeId
           /\ charges[id].address \notin DOMAIN addressToChargeId')
            => charges'[id].status = "swept"]_vars

\* C19: deleteCharge on a charge of the store succeeds exactly when the
\* charge is swept, or expired with a zero received amount: then it returns
\* true and the charge is gone from the store, its address from the address
\* index and from the monitor, and the other charges are untouched; in every
\* other status it throws and the store, the indices, the monitor and the
\* snapshot file with its timer are unchanged.
C19_DeleteOnlySweptOrEmptyExpired ==
  [][\A id \in DOMAIN charges :
       DeleteCharge(id) =>
         IF \/ charges[id].status = "swept"
            \/ charges[id].status = "expired" /\ charges[id].receivedRaw = 0
         THEN /\ last' = <<"deleteCharge", id, <<"true">>>>
              /\ DOMAIN charges' = DOMAIN charges \ {id}
              /\ \A other \in DOMAIN charges' : charges'[other] = charges[other]
              /\ charges[id].address \notin DOMAIN addressToChargeId'
              /\ charges[id].address \notin monitorAccounts'
         ELSE /\ last' = <<"deleteCharge", id, <<"error">>>>
              /\ UNCHANGED <<charges, addressToChargeId, nextAccountIndex,
                             monitorAccounts, persisted, saveDebounceTimer>>]_vars

\* C19 witness: a swept charge has been deleted (the file still holds it)
C19_Witness ==
  /\ last = <<"deleteCharge", 1, <<"true">>>>
  /\ 1 \notin DOMAIN charges
  /\ persisted.exists
  /\ 1 \in DOMAIN persisted.charges
  /\ persisted.charges[1].status = "swept"

\* the account of a charge holds funds: a balance or receivable blocks
HoldsFunds(charge) ==
  \/ ledgerBalance[charge.accountIndex] > 0
  \/ ledgerPending[charge.accountIndex] # {}

\* C20: deleteCharge never returns true for a charge whose account holds
\* funds on the ledger.
C20_NoDeleteWithFunds ==
  [][\A id \in DOMAIN charges :
       (DeleteCharge(id) /\ HoldsFunds(charges[id]))
         => last' # <<"deleteCharge", id, <<"true">>>>]_vars

\* C21: a call of cleanupSweptCharges removes from the store exactly the
\* charges whose status is swept, returns their number, and leaves every
\* charge in another status in the store, unchanged.
C21_CleanupRemovesExactlySwept ==
  [][CleanupSweptCharges =>
       /\ DOMAIN charges' =
            {id \in DOMAIN charges : charges[id].status # "swept"}
       /\ \A id \in DOMAIN charges' : charges'[id] = charges[id]
       /\ last' = <<"cleanupSweptCharges",
                    Cardinality({id \in DOMAIN charges :
                                   charges[id].status = "swept"}),
                    <<>>>>]_vars

\* C21 witness: a cleanup has removed one swept charge (its snapshot entry
\* is still in the file) and has left two other charges in the store
C21_Witness ==
  /\ last = <<"cleanupSweptCharges", 1, <<>>>>
  /\ Cardinality(DOMAIN charges) = 2
  /\ persisted.exists
  /\ \E id \in DOMAIN persisted.charges :
       id \notin DOMAIN charges /\ persisted.charges[id].status = "swept"

\* everything customers have sent to the account of a charge so far
PaidIn(id) ==
  SumAmounts(SetToSeq({h \in 1..Len(payments) :
                         payments[h].to = charges[id].accountIndex}))

\* the checkChargeStatus call that returns in this step
Returning(s) == tasks[s].pc = "checkBalance" /\ tasks'[s].pc = "free"

\* a step of a checkChargeStatus call
StatusCheckStep ==
  \/ \E id \in 1..MaxCharges : CheckChargeStatus(id)
  \/ \E s \in DOMAIN tasks : CheckGetPending(s) \/ CheckGetBalance(s)

\* the frame of checkChargeStatus on its own: no step of a call writes the
\* store, the indices or the snapshot, and an unknown id fails with not-found
StatusCheckFrame ==
  [][/\ StatusCheckStep =>
          UNCHANGED <<charges, addressToChargeId, nextAccountIndex,
                      persisted, saveDebounceTimer>>
     /\ \A id \in 1..MaxCharges :
          (CheckChargeStatus(id) /\ id \notin DOMAIN charges)
            => last' = <<"checkChargeStatus", id, <<"notfound">>>>]_vars

\* C22: a checkChargeStatus call that returns reports
\* isPaid = (total >= required) and remaining = max(required - total, 0) for
\* a total (balance plus receivable blocks) that the ledger can have held for
\* the charge's account, that is, no more than customers have sent to it; no
\* step of a call changes the store, the two indices or the snapshot; a call
\* for an unknown id fails with not-found.
C22_StatusFromLedgerFigures ==
  [][/\ \A s \in DOMAIN tasks :
          Returning(s) =>
            LET id       == tasks[s].id
                required == charges[id].amountRaw
            IN \E total \in 0..PaidIn(id) :
                 last' = <<"checkChargeStatus", id,
                           <<IF total >= required THEN "paid" ELSE "unpaid",
                             IF required > total THEN required - total ELSE 0>>>>
     /\ StatusCheckStep =>
          UNCHANGED <<charges, addressToChargeId, nextAccountIndex,
                      persisted, saveDebounceTimer>>
     /\ \A id \in 1..MaxCharges :
          (CheckChargeStatus(id) /\ id \notin DOMAIN charges)
            => last' = <<"checkChargeStatus", id, <<"notfound">>>>]_vars

\* C23: once stop() has returned and until start() is called again, the
\* expiry timer is not armed (no expiry scan can run) and the monitor is not
\* started, whatever start() calls were in flight when stop() was called.
C23_StoppedStaysStopped ==
  ~isRunning => (~expiryCheckInterval /\ ~monitorStarted)

\* a ledger call of the sweepCharge call in slot s fails in this step
LedgerCallFails(s) ==
  \/ SweepGetPendingFails(s)
  \/ SweepReceiveFails(s)
  \/ SweepGetBalanceFails(s)
  \/ SweepSendFails(s)

\* C24: when a ledger call inside sweepCharge fails (the query of the
\* receivable blocks or a receive while settling pending funds, the balance
\* query, or the send), the call ends in that step by throwing to its
\* caller, and the charge's status, sweep time, sweep hash and address
\* registration are unchanged; the call neither goes on nor returns null.
C24_SweepLedgerFailurePropagates ==
  [][\A s \in DOMAIN tasks :
       LedgerCallFails(s) =>
         LET id == tasks[s].id
         IN /\ last' = <<"sweepCharge", id, <<"error">>>>
            /\ tasks'[s].pc = "free"
            /\ charges'[id].status = charges[id].status
            /\ charges'[id].sweptAt = charges[id].sweptAt
            /\ charges'[id].sweepTxHash = charges[id].sweepTxHash
            /\ UNCHANGED <<addressToChargeId, monitorAccounts>>]_vars

\* C25: when the webhook POST of a sweep fails (a non-success status or a
\* transport error), sweepCharge still returns the hash and the amount of
\* its send and reports no error, and the charge is left as the sweep made
\* it: swept, with its sweep time and hash, not marked as notified by this
\* call, and with the snapshot file untouched.
C25_WebhookFailureNotPropagated ==
  [][\A s \in DOMAIN tasks :
       WebhookResponse(s, FALSE) =>
         LET id == tasks[s].id
         IN /\ last' = <<"sweepCharge", id,
                         <<"ok", tasks[s].hash, tasks[s].balance>>>>
            /\ tasks'[s].pc = "free"
            /\ charges' = charges
            /\ charges[id].status = "swept"
            /\ charges[id].sweptAt # NoVal
            /\ charges[id].sweepTxHash # NoHash
            /\ UNCHANGED <<addressToChargeId, persisted>>]_vars

\* C25 witness: a sweep whose only POST failed has returned its hash and
\* amount; the charge is swept and not marked as notified
C25_Witness ==
  /\ last[1] = "sweepCharge"
  /\ last[3] # <<>>
  /\ last[3][1] = "ok"
  /\ 1 \in DOMAIN charges
  /\ charges[1].status = "swept"
  /\ charges[1].webhookUrl
  /\ ~charges[1].webhookSent
  /\ Len(webhookPosts[1]) = 1
  /\ \A s \in DOMAIN tasks : tasks[s].pc = "free"

\* C26: in every reachable state every entry of the address index maps an
\* address to the id of a charge that is in the store and has that address.
C26_NoDanglingAddress ==
  \A a \in DOMAIN addressToChargeId :
    /\ addressToChargeId[a] \in DOMAIN charges
    /\ charges[addressToChargeId[a]].address = a

\* C27: in every reachable state the charges of the store have pairwise
\* distinct addresses, and the address index leads to no swept charge: a
\* lookup by the address of a swept charge finds nothing, while the charge
\* itself is still found by its id.
C27_SweptAddressReleased ==
  /\ \A i, j \in DOMAIN charges :
       i # j => charges[i].address # charges[j].address
  /\ \A a \in DOMAIN addressToChargeId :
       getChargeByAddress(a) # NoVal
         => charges[getChargeByAddress(a)].status # "swept"

\* the sub-account indices createCharge has handed out so far: one per call,
\* from StartingIndex upward (nextId counts the calls of all processes)
HandedOut == StartingIndex..(StartingIndex + nextId - 2)

\* C28: in every reachable state the next sub-account index is greater than
\* every index handed out so far, so that no createCharge call hands out an
\* index a second time, across deletions, cleanups, imports, crashes and
\* restarts.
C28_IndexNeverReused ==
  \A i \in HandedOut : nextAccountIndex > i

\* C29: no step lowers the received amount of a charge that is in the store
\* and not swept.
C29_ReceivedNeverDecreases ==
  [][\A id \in Kept :
       charges[id].status # "swept"
         => charges'[id].receivedRaw >= charges[id].receivedRaw]_vars

\* the transaction list of the charge already holds an entry with the hash
Applied(id, hash) ==
  \E i \in 1..Len(charges[id].transactions) :
    charges[id].transactions[i].hash = hash

\* C30: when the payment event of a hash that is already in the transaction
\* list of its charge is delivered again while the charge is pending or
\* partial, handlePayment appends one more entry with that hash and adds
\* the amount to received once more.
C30_DuplicateEventAppliedAgain ==
  [][\A h \in 1..Len(payments) :
       (/\ HandlePayment(h)
        /\ Owner(h) # NoVal
        /\ charges[Owner(h)].status \in {"pending", "partial"}
        /\ Applied(Owner(h), h))
         => LET id == Owner(h)
            IN /\ charges'[id].transactions =
                    Append(charges[id].transactions,
                           PaymentTransaction(h, payments[h].from,
                                              payments[h].amount))
               /\ charges'[id].receivedRaw =
                    charges[id].receivedRaw + payments[h].amount]_vars

\* C30 witness: one block of 1 has been applied twice: two entries with the
\* same hash, and a received amount of twice the block's amount
C30_Witness ==
  \E id \in DOMAIN charges :
    /\ Len(charges[id].transactions) = 2
    /\ charges[id].transactions[1].hash = charges[id].transactions[2].hash
    /\ Len(payments) = 1
    /\ charges[id].receivedRaw = 2 * payments[1].amount

\* what handlePayment makes of a charge when the blocks are delivered to it
\* one by one as live payment events
RECURSIVE DeliverLive(_, _)
DeliverLive(charge, items) ==
  IF items = <<>> THEN charge
  ELSE LET hash == Head(items)
           tx   == PaymentTransaction(hash, payments[hash].from,
                                      payments[hash].amount)
       IN DeliverLive(IF IgnoresPayment(charge) THEN charge
                      ELSE PaidStatus(ApplyPayment(charge, tx)),
                      Tail(items))

\* the blocks of the account of a charge that are settled after this step,
\* in the order of their hashes: at the end of the scan of the charge, the
\* blocks the scan has handled
SentTo(id) ==
  SetToSeq({h \in 1..Len(payments) :
              /\ payments[h].to = charges[id].accountIndex
              /\ h \notin ledgerPending'[charges[id].accountIndex]})

\* the recovery scan handles the last pending block of the charge at the
\* head of its queue in this step
ScanEnds(r) ==
  /\ rec[r].pc = "receive"
  /\ Len(rec[r].pend) = 1
  /\ RecReceive(r)

\* C31: when the recovery scan has handled the pending blocks of a charge
\* (the blocks sent to it while no process ran), the charge has the
\* transaction list, the received amount and the status that delivering the
\* same blocks one by one as live payment events to the charge of the
\* snapshot would have given it.
C31_RecoveryEqualsLiveDelivery ==
  [][\A r \in DOMAIN rec :
       ScanEnds(r) =>
         LET id   == Head(rec[r].queue)
             live == DeliverLive(FromJSON(persisted.charges[id]), SentTo(id))
         IN /\ charges'[id].transactions = live.transactions
            /\ charges'[id].receivedRaw = live.receivedRaw
            /\ charges'[id].status = live.status]_vars

\* the snapshot file holds the charge set and the next index of the store
SnapshotCurrent ==
  persisted = PersistedState(charges, nextAccountIndex)

PostInFlight(id) ==
  \E s \in DOMAIN tasks : tasks[s].pc = "webhook" /\ tasks[s].id = id

\* every POST issued for the charge so far has been answered, and none with
\* success
AttemptFailed(id) ==
  /\ webhookPosts[id] # <<>>
  /\ ~PostInFlight(id)
  /\ ~charges[id].webhookSent

\* C33: the notification-sent flag of a charge becomes true only in the
\* step in which a POST for it is answered with success; and once the
\* attempts for a charge have failed, no step issues another POST for it or
\* sets its flag.
C33_NoWebhookRetry ==
  [][\A id \in Kept :
       /\ (~charges[id].webhookSent /\ charges'[id].webhookSent)
            => \E s \in DOMAIN tasks :
                 tasks[s].id = id /\ WebhookResponse(s, TRUE)
       /\ AttemptFailed(id)
            => /\ webhookPosts'[id] = webhookPosts[id]
               /\ ~charges'[id].webhookSent]_vars

\* a POST for the charge is issued in this step
Posts(id) == Len(webhookPosts'[id]) = Len(webhookPosts[id]) + 1

\* the payment event handled in this step covers what the charge still needs
CoveringEvent(id) ==
  \E h \in events :
    /\ HandlePayment(h)
    /\ Owner(h) = id
    /\ charges[id].status \in {"pending", "partial"}
    /\ charges[id].receivedRaw + payments[h].amount >= charges[id].amountRaw

\* C34: with autoSweep on and ledger calls that succeed, a payment event
\* that covers the required amount makes the charge completed (not yet
\* swept) and starts one sweepCharge call; a fully paid charge becomes swept
\* only from completed; the payload of a webhook POST is built in the step
\* that makes the charge swept and reports status swept, the hash of the
\* send of that step and, as sweptAmountRaw, the balance that send took from
\* the account; and a completed charge does become swept.
C34_CompletedThenSweptThenWebhook ==
  /\ [][\A id \in Kept :
          /\ (autoSweep /\ CoveringEvent(id))
               => /\ charges'[id].status = "completed"
                  /\ Cardinality(Spawned(id)) = 1
          /\ (BecomesSwept(id) /\ charges[id].receivedRaw >= charges[id].amountRaw)
               => charges[id].status = "completed"
          /\ Posts(id)
               => LET payload == webhookPosts'[id][Len(webhookPosts'[id])]
                      index   == charges[id].accountIndex
                  IN /\ charges[id].status # "swept"
                     /\ charges'[id].status = "swept"
                     /\ payload.status = "swept"
                     /\ SendSucceeds(id)
                     /\ payload.sweepTxHash = SweepHash(id)
                     /\ payload.sweepTxHash = charges'[id].sweepTxHash
                     /\ payload.sweptAmountRaw > 0
                     /\ payload.sweptAmountRaw =
                          ledgerBalance[index] - ledgerBalance'[index]]_vars
  /\ \A id \in 1..MaxCharges :
       (autoSweep /\ id \in DOMAIN charges /\ charges[id].status = "completed")
         ~> (id \in DOMAIN charges /\ charges[id].status = "swept")

\* C34 witness: with autoSweep on, a charge completed by a live payment
\* event has been swept and its POST issued with the swept charge
C34_Witness ==
  /\ autoSweep
  /\ \E id \in DOMAIN charges :
       /\ charges[id].status = "swept"
       /\ charges[id].completedAt # NoVal
       /\ Len(webhookPosts[id]) = 1
       /\ webhookPosts[id][1].status = "swept"
       /\ webhookPosts[id][1].sweptAmountRaw = charges[id].receivedRaw
       /\ monitorStarted

\* C35: at most one send block leaves the account of a charge, and the
\* sweptAt and sweepTxHash of a charge never change once they are set,
\* whatever the interleaving of the sweepCharge calls on the charge.
C35_SingleSweepSend ==
  /\ [](\A id \in DOMAIN charges : sendCount[charges[id].accountIndex] <= 1)
  /\ [][\A id \in Kept :
          /\ charges[id].sweepTxHash # NoHash
               => charges'[id].sweepTxHash = charges[id].sweepTxHash
          /\ charges[id].sweptAt # NoVal
               => charges'[id].sweptAt = charges[id].sweptAt]_vars

\* C36: when no payment event is delivered twice, the received amount of a
\* charge never exceeds the sum of the blocks sent to its account, across
\* payment events, crashes, restarts and recovery scans.
C36_ReceivedWithinLedger ==
  \A id \in DOMAIN charges : charges[id].receivedRaw <= PaidIn(id)

\* the blocks sent to the account of a charge that are settled on the ledger
Settled(id) ==
  {h \in 1..Len(payments) :
     /\ payments[h].to = charges[id].accountIndex
     /\ h \notin ledgerPending[charges[id].accountIndex]}

\* the blocks in the transaction list of a charge
Recorded(id) ==
  {charges[id].transactions[k].hash : k \in 1..Len(charges[id].transactions)}

\* C37: when the process is killed during the recovery scan and constructed
\* again, every block the scan had settled on the ledger for a charge is in
\* the transaction list the new process loads for it, and the loaded
\* received amount is at least the sum of the settled blocks.
C37_SettledBlocksSurviveCrash ==
  [][Restart =>
       \A id \in DOMAIN charges' :
         /\ Settled(id)' \subseteq Recorded(id)'
         /\ charges'[id].receivedRaw >= SumAmounts(SetToSeq(Settled(id)'))]_vars

\* a customer's block to the account of this charge of the snapshot file is
\* confirmed in this step
PaidNow(id) ==
  /\ Len(payments') = Len(payments) + 1
  /\ payments'[Len(payments')].to = persisted.charges[id].accountIndex

\* C38: with `charge create` processes and the listener on one snapshot
\* file, no write of the file removes a charge that was in it, no write
\* lowers the nextAccountIndex that was in it, and a payment to a pending
\* charge of the file that a create command made while the listener was
\* running gives that listener, still running with its monitor started, a
\* payment event.
C38_SharedSnapshotFile ==
  [][/\ DOMAIN persisted.charges \subseteq DOMAIN persisted'.charges
     /\ persisted.exists
          => persisted'.nextAccountIndex >= persisted.nextAccountIndex
     /\ \A id \in DOMAIN persisted.charges :
          (/\ isRunning /\ monitorStarted
           /\ persisted.charges[id].status = "pending"
           /\ creator.pc = "exited" /\ creator.listenerRunning
           /\ id \in DOMAIN creator.charges
           /\ id \notin DOMAIN charges
           /\ PaidNow(id))
            => Len(payments') \in events']_vars

\* the charge is due for a sweep: completed, or expired with funds received
SweepDue(id) ==
  /\ id \in DOMAIN charges
  /\ \/ charges[id].status = "completed"
     \/ charges[id].status = "expired" /\ charges[id].receivedRaw > 0

\* C39: with autoSweep on and a processor that keeps running, a charge that
\* is completed, or expired with received > 0, is eventually swept, although
\* ledger calls of its sweep may fail (finitely often).
C39_DueChargeEventuallySwept ==
  \A id \in 1..MaxCharges :
    (autoSweep /\ SweepDue(id))
      ~> (id \in DOMAIN charges /\ charges[id].status = "swept")

\* the listener process ends in this step
ListenerExits ==
  \E r \in DOMAIN rec : rec[r].pc # "exited" /\ rec'[r].pc = "exited"

\* C40: the listener ends itself only when no charge is pending or partial
\* and no sweepCharge call (a sweep of leftover funds, or the webhook POST of
\* a charge just swept) is still suspended.
C40_AutoStopWaitsForSweeps ==
  [][ListenerExits =>
       /\ listActiveCharges = <<>>
       /\ \A s \in DOMAIN tasks : tasks[s].pc = "free"]_vars

====
